---- MODULE Spec2Model ----
(***************************************************************************)
(* Catto (src/game.js, lines 1-1255): the per-frame simulation engine.     *)
(*                                                                         *)
(* Geometry.  The model follows the runs in which every entity lies on the *)
(* horizontal line through the player (y = 400): enemies enter from the    *)
(* left or right edge at y = 400, hairballs fly at angle 0 or pi, and only *)
(* the left/right keys are pressed.  On that line Math.hypot(dx, dy) is    *)
(* |dx| and the unit vector towards the player is +1 or -1, so movement    *)
(* and distance tests are exact.  Positions are integers in units of       *)
(* 1/100000 px (Px), which represents every enemy speed exactly.           *)
(* Enemy hp is kept in half points (Hp), since claw damage can be 19.5.    *)
(* A claw test succeeds for an enemy when a claw lies on the line on the   *)
(* enemy's side of the player in that frame (input clawOn) and the enemy   *)
(* is within clawSize + size of that point.                                *)
(***************************************************************************)
EXTENDS Integers, Sequences, FiniteSets, TLC

\* ---------------------------------------------------------------- bounds
MaxTicks == 2          \* frames simulated in one behaviour
MaxKeyEvents == 1      \* keydown/keyup events in one behaviour
MaxSpawns == 1         \* enemies spawned in one behaviour
MaxTimers == 2         \* deferred hits pending at once

\* ---------------------------------------------------------------- helpers
Px(n) == n * 100000
Hp(n) == n * 2
Abs(n) == IF n < 0 THEN -n ELSE n
Sign(n) == IF n < 0 THEN -1 ELSE IF n > 0 THEN 1 ELSE 0
Min(a, b) == IF a < b THEN a ELSE b
Max(a, b) == IF a > b THEN a ELSE b
\* Math.floor(a / b) for b > 0
Floor(a, b) == a \div b
\* JavaScript Array.prototype.splice(index, 1); index is 0-based in the code,
\* 1-based here.  Beyond the end it removes nothing.
Splice(s, i) ==
    IF i >= 1 /\ i <= Len(s)
    THEN [k \in 1..(Len(s) - 1) |-> IF k < i THEN s[k] ELSE s[k + 1]]
    ELSE s
Ids(s) == {s[k].id : k \in 1..Len(s)}
RECURSIVE SumSeq(_)
SumSeq(s) == IF s = <<>> THEN 0 ELSE Head(s) + SumSeq(Tail(s))

CanvasWidth == 1200
PlayerSpeed == 3

\* ---------------------------------------------------------------- tables
AbilityKeys == <<"clawOrbit", "whiskerWhip", "hairballBurst", "pawSlam", "catNap">>
AbilityKeySet == {AbilityKeys[i] : i \in 1..Len(AbilityKeys)}

AbilityDefs ==
    [clawOrbit |-> [name |-> "Claw Orbit", level |-> 1, maxLevel |-> 5, damage |-> 12,
                    maxCooldown |-> 0,
                    descriptions |-> <<"2 claws rotate steadily",
                                       "Claws rotate faster, +25% damage",
                                       "Adds 2 more claws (total 4)",
                                       "Claws grow larger, +30% damage",
                                       "Max speed, claws leave damaging afterimages">>],
     whiskerWhip |-> [name |-> "Whisker Whip", level |-> 0, maxLevel |-> 5, damage |-> 25,
                      maxCooldown |-> 120,
                      descriptions |-> <<"Fires a whip forward every 2 seconds",
                                         "Cooldown reduced",
                                         "Whip length increased",
                                         "Hits pierce through multiple enemies",
                                         "Whip splits into two directions">>],
     hairballBurst |-> [name |-> "Hairball Burst", level |-> 0, maxLevel |-> 5, damage |-> 20,
                        maxCooldown |-> 180,
                        descriptions |-> <<"Fires one hairball in random direction",
                                           "Damage increased",
                                           "+1 extra hairball",
                                           "Hairballs bounce once after hitting",
                                           "Hairballs explode into fragments">>],
     pawSlam |-> [name |-> "Paw Slam", level |-> 0, maxLevel |-> 5, damage |-> 30,
                  maxCooldown |-> 150,
                  descriptions |-> <<"Small AoE slam around the cat",
                                     "Damage +20%",
                                     "Larger radius",
                                     "Leaves burning paw print",
                                     "Double slam (hits twice)">>],
     catNap |-> [name |-> "Cat Nap", level |-> 0, maxLevel |-> 5, damage |-> 0,
                 maxCooldown |-> 1800,
                 descriptions |-> <<"Recover small HP after 30 sec",
                                    "Also reduces damage taken by 5%",
                                    "Heal amount increased",
                                    "Gain brief invulnerability after napping",
                                    "Auto-heal every 20 sec">>]]

\* speed10 is the blueprint speed times 10 (0.7, 1.5, 1.2)
EnemyTypes ==
    [rat  |-> [hp |-> 12, speed10 |-> 7,  damage |-> 2, size |-> 8,  xpValue |-> 2],
     dog  |-> [hp |-> 30, speed10 |-> 15, damage |-> 6, size |-> 12, xpValue |-> 4],
     crow |-> [hp |-> 40, speed10 |-> 12, damage |-> 5, size |-> 10, xpValue |-> 6]]

\* ---------------------------------------------------------------- state
VARIABLES
    player,        \* gameState.player: [x, hp, maxHp, level, xp, xpNext, invulnerable, facingLeft]
    time,          \* gameState.time
    kills,         \* gameState.kills
    paused,        \* gameState.paused
    gameOver,      \* gameState.gameOver
    abilities,     \* abilities[key].level and .cooldown
    claws,         \* abilities.clawOrbit.claws
    rotation,      \* abilities.clawOrbit.rotation, in steps of 0.044 rad
    enemies,       \* the enemies array
    projectiles,   \* the projectiles array
    xpOrbs,        \* the xpOrbs array
    particles,     \* the particles array
    timers,        \* pending setTimeout callbacks (deferred hits)
    store,         \* localStorage item 'catto_highscore': <<>> when absent, else <<characters>>
    displayHighScore, \* text of #displayHighScore: <<>> until written, else <<result of getHighScore>>
    waveText,      \* text of #wave: <<>> until updateUI has written it, else <<number>>
    spritesLoaded, \* the counter spritesLoaded
    spritesPending,\* the sprites whose load attempt has not completed
    readyState,    \* document.readyState: "loading" until DOMContentLoaded, then "complete"
    domListeners,  \* DOMContentLoaded listeners that call initializeGame
    modalShown,    \* #levelUpModal is displayed
    offer,         \* the buttons of #upgradeChoices
    gameOverShown, \* #gameOver is displayed
    overlayShown,  \* #startOverlay is displayed
    rafPending,    \* gameLoop callbacks requested and not yet run
    keys,          \* the keys map: the set of keys held down
    keyEvents,     \* key events handled in this behaviour
    nextId,        \* object identity of the next enemy, orb or projectile
    spawns,        \* enemies spawned in this behaviour
    credited,      \* ids of the orbs credited to player.xp so far (observation only)
    ticks,         \* frames run in this behaviour
    log            \* what the last handler did (observation only)

vars == <<player, time, kills, paused, gameOver, abilities, claws, rotation, enemies,
          projectiles, xpOrbs, particles, timers, store, displayHighScore, waveText,
          spritesLoaded, spritesPending, readyState, domListeners, modalShown, offer,
          gameOverShown, overlayShown, rafPending, keys, keyEvents, nextId, spawns, credited, ticks, log>>

\* The world as one record, threaded through the update functions.
World ==
    [player |-> player, time |-> time, kills |-> kills, paused |-> paused,
     gameOver |-> gameOver, abilities |-> abilities, claws |-> claws,
     rotation |-> rotation, enemies |-> enemies, projectiles |-> projectiles,
     xpOrbs |-> xpOrbs, particles |-> particles, timers |-> timers, store |-> store,
     displayHighScore |-> displayHighScore, waveText |-> waveText,
     spritesLoaded |-> spritesLoaded, spritesPending |-> spritesPending,
     readyState |-> readyState, domListeners |-> domListeners,
     modalShown |-> modalShown, offer |-> offer, gameOverShown |-> gameOverShown,
     overlayShown |-> overlayShown, rafPending |-> rafPending, keys |-> keys,
     keyEvents |-> keyEvents, nextId |-> nextId, spawns |-> spawns,
     credited |-> credited,
     ticks |-> ticks, log |-> log]

EmptyLog(kind) ==
    [kind |-> kind,       \* which handler ran
     key |-> "",          \* selectUpgrade: the ability chosen
     calls |-> <<>>,      \* updateEnemies: one record per callback run
     spawn |-> <<>>,      \* spawnEnemies: <<[before, after, cap, wave]>>, wave <<>> at the cap
     credits |-> <<>>,    \* updateXP: one record per orb credited
     levelUps |-> <<>>,   \* levelUp: one record per call
     offers |-> <<>>,     \* showLevelUpModal: one record per call
     heals |-> <<>>,      \* catNap: one record per call
     hits |-> <<>>,       \* updateProjectiles: one record per enemy hit, shot the projectile
     orbs |-> <<>>,       \* updateXP: one record per callback run
     made |-> <<>>,       \* dropXP: one record per orb pushed
     over |-> <<>>,       \* gameOver: one record per call
     started |-> <<>>,    \* startGame: the world at its call of gameLoop
     fired |-> <<>>,      \* the deferred hit run by this handler
     triggered |-> {},    \* updateAbilities: the abilities that fired
     slam |-> <<>>,       \* pawSlam: per enemy, its distance and its hp before and after
     drops |-> 0]         \* dropXP: calls so far

\* ---------------------------------------------------------------- abilities
\* initClawOrbit that gives the four claws from level 4 on
InitClawOrbitLate(w) ==
    LET clawCount == IF w.abilities.clawOrbit.level >= 4 THEN 4 ELSE 2
    IN  [w EXCEPT !.claws = [i \in 1..clawCount |->
                                [angleNum |-> i - 1, angleDen |-> clawCount,
                                 distance |-> 55, placed |-> FALSE]]]

\* initClawOrbit: claw i of count sits at angle 2*pi*i/count, distance 55;
\* the x, y of a claw exist only after updateAbilities has placed it.
InitClawOrbit(w) ==
    LET clawCount == IF w.abilities.clawOrbit.level >= 3 THEN 4 ELSE 2
    IN  [w EXCEPT !.claws = [i \in 1..clawCount |->
                                [angleNum |-> i - 1, angleDen |-> clawCount,
                                 distance |-> 55, placed |-> FALSE]]]

\* updatePlayer, left/right keys
UpdatePlayer(w) ==
    LET p == w.player
        left == "a" \in w.keys \/ "arrowleft" \in w.keys
        right == "d" \in w.keys \/ "arrowright" \in w.keys
        x1 == IF left THEN p.x - Px(PlayerSpeed) ELSE p.x
        f1 == IF left THEN TRUE ELSE p.facingLeft
        x2 == IF right THEN x1 + Px(PlayerSpeed) ELSE x1
        f2 == IF right THEN FALSE ELSE f1
        x3 == Max(Px(30), Min(Px(CanvasWidth - 30), x2))
    IN  [w EXCEPT !.player = [p EXCEPT !.x = x3, !.facingLeft = f2]]

\* fireWhiskerWhip: direction 0, and pi at level 5
FireWhiskerWhip(w) ==
    LET lvl == w.abilities.whiskerWhip.level
        directions == IF lvl >= 5 THEN <<1, -1>> ELSE <<1>>
        mk(i) == [id |-> w.nextId + i - 1,
                  x |-> w.player.x,
                  dx |-> directions[i] * Px(4),
                  damage |-> Hp(AbilityDefs.whiskerWhip.damage),
                  range |-> IF lvl >= 3 THEN <<120>> ELSE <<80>>,
                  pierce |-> lvl >= 4,
                  bounce |-> FALSE,
                  explode |-> FALSE,
                  type |-> "whip",
                  life |-> 0]
    IN  [w EXCEPT !.projectiles = @ \o [i \in 1..Len(directions) |-> mk(i)],
                  !.nextId = @ + Len(directions)]

\* fireHairball: angles[i] is cos of the random angle of hairball i (1 or -1)
FireHairball(w, angles) ==
    LET lvl == w.abilities.hairballBurst.level
        count == IF lvl >= 3 THEN 2 ELSE 1
        base == AbilityDefs.hairballBurst.damage
        damage == IF lvl >= 2 THEN Floor(Hp(base) * 15, 10) ELSE Hp(base)
        mk(i) == [id |-> w.nextId + i - 1,
                  x |-> w.player.x,
                  dx |-> angles[i] * Px(3),
                  damage |-> damage,
                  range |-> <<>>,
                  pierce |-> FALSE,
                  bounce |-> lvl >= 4,
                  explode |-> lvl >= 5,
                  type |-> "hairball",
                  life |-> 0]
    IN  [w EXCEPT !.projectiles = @ \o [i \in 1..count |-> mk(i)],
                  !.nextId = @ + count]

\* pawSlam that spares an enemy exactly at the radius
PawSlamInside(w) ==
    LET lvl == w.abilities.pawSlam.level
        radius == IF lvl >= 3 THEN Floor(Px(60) * 15, 10) ELSE Px(60)
        base == Hp(AbilityDefs.pawSlam.damage)
        damage == IF lvl >= 2 THEN Floor(base * 12, 10) ELSE base
        inReach(e) == Abs(e.x - w.player.x) < radius
        hit == [k \in 1..Len(w.enemies) |-> inReach(w.enemies[k])]
        hitIdx == {k \in 1..Len(w.enemies) : hit[k]}
        RECURSIVE second(_)
        second(k) == IF k > Len(w.enemies) THEN <<>>
                     ELSE (IF hit[k] /\ lvl >= 5
                           THEN <<[target |-> w.enemies[k].id,
                                   damage |-> Floor(damage * 5, 10),
                                   delay |-> 200]>>
                           ELSE <<>>) \o second(k + 1)
    IN  [w EXCEPT !.enemies = [k \in 1..Len(w.enemies) |->
                                  IF hit[k] THEN [w.enemies[k] EXCEPT !.hp = @ - damage]
                                  ELSE w.enemies[k]],
                  !.timers = @ \o second(1),
                  !.particles = Append(@, [x |-> w.player.x, radius |-> radius,
                                           life |-> 30, type |-> "slam"])]

\* pawSlam: every enemy within the radius loses the damage; at level 5 a
\* second hit on the same enemy object is scheduled 200 ms later.
PawSlam(w) ==
    LET lvl == w.abilities.pawSlam.level
        radius == IF lvl >= 3 THEN Floor(Px(60) * 15, 10) ELSE Px(60)
        base == Hp(AbilityDefs.pawSlam.damage)
        damage == IF lvl >= 2 THEN Floor(base * 12, 10) ELSE base
        inReach(e) == Abs(e.x - w.player.x) <= radius
        hit == [k \in 1..Len(w.enemies) |-> inReach(w.enemies[k])]
        hitIdx == {k \in 1..Len(w.enemies) : hit[k]}
        RECURSIVE second(_)
        second(k) == IF k > Len(w.enemies) THEN <<>>
                     ELSE (IF hit[k] /\ lvl >= 5
                           THEN <<[target |-> w.enemies[k].id,
                                   damage |-> Floor(damage * 5, 10),
                                   delay |-> 200]>>
                           ELSE <<>>) \o second(k + 1)
    IN  [w EXCEPT !.enemies = [k \in 1..Len(w.enemies) |->
                                  IF hit[k] THEN [w.enemies[k] EXCEPT !.hp = @ - damage]
                                  ELSE w.enemies[k]],
                  !.timers = @ \o second(1),
                  !.particles = Append(@, [x |-> w.player.x, radius |-> radius,
                                           life |-> 30, type |-> "slam"])]

\* catNap without the cap at 100
CatNapUncapped(w) ==
    LET lvl == w.abilities.catNap.level
        healing == IF lvl >= 3 THEN 30 ELSE 20
        hp1 == w.player.hp + healing
    IN  [w EXCEPT !.player.hp = hp1,
                  !.player.invulnerable = IF lvl >= 4 THEN 180 ELSE @,
                  !.log.heals = Append(@, [before |-> w.player.hp, after |-> hp1])]

\* catNap
CatNap(w) ==
    LET lvl == w.abilities.catNap.level
        healing == IF lvl >= 3 THEN 30 ELSE 20
        hp1 == Min(100, w.player.hp + healing)
    IN  [w EXCEPT !.player.hp = hp1,
                  !.player.invulnerable = IF lvl >= 4 THEN 180 ELSE @,
                  !.log.heals = Append(@, [before |-> w.player.hp, after |-> hp1])]

\* updateAbilities, Claw Orbit: the rotation advances, the claws take their places
RotateClaws(w) ==
    LET lvl == w.abilities.clawOrbit.level
        speedMultiplier == IF lvl >= 2 THEN 2 ELSE 1
        finalSpeed == IF lvl >= 5 THEN 4 ELSE speedMultiplier
    IN  IF lvl > 0
        THEN [w EXCEPT !.rotation = @ + finalSpeed,
                       !.claws = [i \in 1..Len(w.claws) |->
                                     [w.claws[i] EXCEPT !.placed = TRUE]]]
        ELSE w

\* updateAbilities: every positive cooldown counts down
TickCooldowns(w) ==
    [w EXCEPT !.abilities = [k \in AbilityKeySet |->
                                IF w.abilities[k].cooldown > 0
                                THEN [w.abilities[k] EXCEPT !.cooldown = @ - 1]
                                ELSE w.abilities[k]]]

\* Whisker Whip with the cooldown of level 1 at every level
WhiskerWhipReadyUnscaled(w) ==
    IF w.abilities.whiskerWhip.level > 0 /\ w.abilities.whiskerWhip.cooldown <= 0
    THEN [FireWhiskerWhip(w) EXCEPT !.abilities.whiskerWhip.cooldown =
              AbilityDefs.whiskerWhip.maxCooldown,
              !.log.triggered = @ \cup {"whiskerWhip"}]
    ELSE w

\* updateAbilities, Whisker Whip
WhiskerWhipReady(w) ==
    IF w.abilities.whiskerWhip.level > 0 /\ w.abilities.whiskerWhip.cooldown <= 0
    THEN [FireWhiskerWhip(w) EXCEPT !.abilities.whiskerWhip.cooldown =
              IF w.abilities.whiskerWhip.level >= 2
              THEN Floor(AbilityDefs.whiskerWhip.maxCooldown * 7, 10)
              ELSE AbilityDefs.whiskerWhip.maxCooldown,
              !.log.triggered = @ \cup {"whiskerWhip"}]
    ELSE w

\* updateAbilities, Hairball Burst
HairballReady(w, angles) ==
    IF w.abilities.hairballBurst.level > 0 /\ w.abilities.hairballBurst.cooldown <= 0
    THEN [FireHairball(w, angles) EXCEPT !.abilities.hairballBurst.cooldown =
              AbilityDefs.hairballBurst.maxCooldown,
              !.log.triggered = @ \cup {"hairballBurst"}]
    ELSE w

\* updateAbilities, Paw Slam
PawSlamReady(w) ==
    IF w.abilities.pawSlam.level > 0 /\ w.abilities.pawSlam.cooldown <= 0
    THEN [PawSlam(w) EXCEPT !.abilities.pawSlam.cooldown = AbilityDefs.pawSlam.maxCooldown,
                            !.log.triggered = @ \cup {"pawSlam"},
                            !.log.slam = [k \in 1..Len(w.enemies) |->
                                             [id |-> w.enemies[k].id,
                                              dist |-> Abs(w.enemies[k].x - w.player.x),
                                              before |-> w.enemies[k].hp,
                                              after |-> PawSlam(w).enemies[k].hp]]]
    ELSE w

\* updateAbilities, Cat Nap
CatNapReady(w) ==
    IF w.abilities.catNap.level > 0 /\ w.abilities.catNap.cooldown <= 0
    THEN [CatNap(w) EXCEPT !.abilities.catNap.cooldown =
              IF w.abilities.catNap.level >= 5 THEN 1200
              ELSE AbilityDefs.catNap.maxCooldown,
              !.log.triggered = @ \cup {"catNap"}]
    ELSE w

\* updateAbilities
UpdateAbilities(w, angles) ==
    CatNapReady(PawSlamReady(HairballReady(WhiskerWhipReady(TickCooldowns(RotateClaws(w))),
                                           angles)))

\* ---------------------------------------------------------------- high score
Digits == <<"0", "1", "2", "3", "4", "5", "6", "7", "8", "9">>
DigitVal(c) == (CHOOSE d \in 1..10 : Digits[d] = c) - 1
IsDigit(c) == \E d \in 1..10 : Digits[d] = c
\* String(n) for an integer n >= 0, as a sequence of characters
RECURSIVE NumberToString(_)
NumberToString(n) == IF n < 10 THEN <<Digits[n + 1]>>
               ELSE Append(NumberToString(n \div 10), Digits[(n % 10) + 1])
\* value of the longest prefix of digits of str, continuing from acc
RECURSIVE ParseDigits(_, _)
ParseDigits(str, acc) ==
    IF str # <<>> /\ IsDigit(Head(str))
    THEN ParseDigits(Tail(str), acc * 10 + DigitVal(Head(str)))
    ELSE acc
RECURSIVE SkipSpace(_)
SkipSpace(str) == IF str # <<>> /\ Head(str) = " " THEN SkipSpace(Tail(str)) ELSE str
\* parseInt(str): leading blanks, an optional sign, then decimal digits; NaN
\* when no digit follows.
ParseInt(str) ==
    LET t == SkipSpace(str)
        neg == t # <<>> /\ Head(t) = "-"
        u == IF t # <<>> /\ Head(t) \in {"-", "+"} THEN Tail(t) ELSE t
    IN  IF u # <<>> /\ IsDigit(Head(u))
        THEN [nan |-> FALSE, val |-> IF neg THEN -ParseDigits(u, 0) ELSE ParseDigits(u, 0)]
        ELSE [nan |-> TRUE, val |-> 0]
\* getHighScore: parseInt(localStorage.getItem('catto_highscore') || '0')
GetHighScore(st) ==
    ParseInt(IF st = <<>> \/ st[1] = <<>> THEN <<"0">> ELSE st[1])
\* updateHighScoreDisplay
UpdateHighScoreDisplay(w) == [w EXCEPT !.displayHighScore = <<GetHighScore(w.store)>>]
\* initializeGame
InitializeGame(w) == [UpdateHighScoreDisplay(w) EXCEPT !.overlayShown = TRUE]

\* gameOver() that stores the final score without comparing it
GameOverAlwaysStores(w) ==
    [w EXCEPT !.gameOver = TRUE,
              !.store = <<NumberToString(w.kills)>>,
              !.displayHighScore = <<GetHighScore(<<NumberToString(w.kills)>>)>>,
              !.gameOverShown = TRUE,
              !.log.over = Append(@, [kills |-> w.kills, before |-> w.store,
                                      after |-> <<NumberToString(w.kills)>>])]

\* gameOver()
GameOver(w) ==
    LET finalScore == w.kills
        currentHighScore == GetHighScore(w.store)
        stored == IF ~currentHighScore.nan /\ finalScore > currentHighScore.val
                  THEN <<NumberToString(finalScore)>> ELSE w.store
    IN  [w EXCEPT !.gameOver = TRUE,
                  !.store = stored,
                  !.displayHighScore = <<GetHighScore(stored)>>,
                  !.gameOverShown = TRUE,
                  !.log.over = Append(@, [kills |-> finalScore, before |-> w.store,
                                          after |-> stored])]

\* ---------------------------------------------------------------- spawning
WaveNumber(t) == Floor(t, 1500) + 1
\* maxEnemies of spawnEnemies (and of updateUI)
MaxEnemies(t, level) == Min(15 + Floor(t, 1800) * 5 + Floor(level, 3) * 3, 50)
\* totalScaling times 10000
TotalScaling(wave, level) == (100 + (wave - 1) * 12) * (100 + (level - 1) * 5)
\* finalSpawnRate times 1000
FinalSpawnRate(t, level) ==
    (8 + Min(WaveNumber(t) * 2, 15) + Min(level * 2, 20)) * (IF t % 1500 < 600 THEN 2 ELSE 1)

\* the draw of the enemy type with the crow in the place of the dog in mid game
SelectedTypeCrowEarly(wave, level, rand) ==
    IF wave >= 4 /\ level >= 5
    THEN (IF rand < 40 THEN "rat" ELSE IF rand < 70 THEN "dog" ELSE "crow")
    ELSE IF wave >= 2 /\ level >= 2
    THEN (IF rand < 60 THEN "rat" ELSE "crow")
    ELSE "rat"

\* spawnEnemies: the type drawn against the unlock conditions; rand is
\* Math.random() times 100
SelectedType(wave, level, rand) ==
    IF wave >= 4 /\ level >= 5
    THEN (IF rand < 40 THEN "rat" ELSE IF rand < 70 THEN "dog" ELSE "crow")
    ELSE IF wave >= 2 /\ level >= 2
    THEN (IF rand < 60 THEN "rat" ELSE "dog")
    ELSE "rat"
\* the enemy pushed by spawnEnemies
NewEnemy(id, type, wave, level, x) ==
    LET tpl == EnemyTypes[type]
        ts == TotalScaling(wave, level)
    IN  [id |-> id, x |-> x,
         hp |-> Hp(Floor(tpl.hp * ts, 10000)),
         maxHp |-> Hp(Floor(tpl.hp * ts, 10000)),
         speed |-> tpl.speed10 * Min(ts, 25000),
         damage |-> Floor(tpl.damage * ts, 10000),
         size |-> tpl.size,
         xpValue |-> Floor(tpl.xpValue * Max(ts, 12000), 10000),
         type |-> type, wave |-> wave, facingLeft |-> FALSE,
         level |-> level]    \* observation: the player level at the spawn
\* spawnEnemies with the cap test `>` in place of `>=`
SpawnEnemiesPastCap(w, sp) ==
    LET maxEnemies == MaxEnemies(w.time, w.player.level)
        waveNumber == WaveNumber(w.time)
        rec(after, wave) == <<[before |-> Len(w.enemies), after |-> after,
                               cap |-> maxEnemies, wave |-> wave]>>
        x == IF sp.side = 1 THEN Px(CanvasWidth + 20) ELSE Px(-20)
    IN  IF Len(w.enemies) > maxEnemies
        THEN [w EXCEPT !.log.spawn = rec(Len(w.enemies), <<>>)]
        ELSE IF sp.roll < FinalSpawnRate(w.time, w.player.level)
        THEN [w EXCEPT !.enemies = Append(@, NewEnemy(w.nextId,
                                        SelectedType(waveNumber, w.player.level, sp.rand),
                                        waveNumber, w.player.level, x)),
                       !.nextId = @ + 1,
                       !.spawns = @ + 1,
                       !.log.spawn = rec(Len(w.enemies) + 1, <<waveNumber>>)]
        ELSE [w EXCEPT !.log.spawn = rec(Len(w.enemies), <<waveNumber>>)]

\* spawnEnemies; sp.roll is Math.random() times 1000, sp.rand times 100,
\* sp.side the edge (1 right, 3 left), entered at y = 400
SpawnEnemies(w, sp) ==
    LET maxEnemies == MaxEnemies(w.time, w.player.level)
        waveNumber == WaveNumber(w.time)
        rec(after, wave) == <<[before |-> Len(w.enemies), after |-> after,
                               cap |-> maxEnemies, wave |-> wave]>>
        x == IF sp.side = 1 THEN Px(CanvasWidth + 20) ELSE Px(-20)
    IN  IF Len(w.enemies) >= maxEnemies
        THEN [w EXCEPT !.log.spawn = rec(Len(w.enemies), <<>>)]
        ELSE IF sp.roll < FinalSpawnRate(w.time, w.player.level)
        THEN [w EXCEPT !.enemies = Append(@, NewEnemy(w.nextId,
                                        SelectedType(waveNumber, w.player.level, sp.rand),
                                        waveNumber, w.player.level, x)),
                       !.nextId = @ + 1,
                       !.spawns = @ + 1,
                       !.log.spawn = rec(Len(w.enemies) + 1, <<waveNumber>>)]
        ELSE [w EXCEPT !.log.spawn = rec(Len(w.enemies), <<waveNumber>>)]

\* ---------------------------------------------------------------- enemies
\* dropXP; coins[n] is the outcome of Math.random() < 0.5 of the n-th call
DropXP(w, x, value, coins) ==
    LET n == w.log.drops + 1
    IN  IF coins[n]
        THEN [w EXCEPT !.xpOrbs = Append(@, [id |-> w.nextId, x |-> x, value |-> value,
                                             life |-> 600, born |-> w.time]),
                       !.nextId = @ + 1,
                       !.log.made = Append(@, [call |-> n, id |-> w.nextId, x |-> x,
                                               value |-> value, life |-> 600]),
                       !.log.drops = n]
        ELSE [w EXCEPT !.log.drops = n]

\* damage of one claw hit, in half points
ClawDamage(lvl) ==
    LET d1 == Hp(AbilityDefs.clawOrbit.damage)
        d2 == IF lvl >= 2 THEN Floor(d1 * 125, 100) ELSE d1
        d3 == IF lvl >= 4 THEN Floor(d2 * 13, 10) ELSE d2
    IN  d3

\* The callback of enemies.forEach in updateEnemies, run for the element at
\* index, in four parts.  Between the parts c holds the world (c.w), the
\* callback's `enemy` object (c.enemy), which stays the same object after it
\* has been spliced out of the array, and the record of the call (c.call);
\* splice(index, 1) removes whatever the array holds at index.
\* Part 1: the enemy steps towards the player.
EnemyMove(w, index) ==
    LET enemy == w.enemies[index]
        dx == w.player.x - enemy.x
        dist == Abs(dx)
        moved == IF dist > 0
                 THEN [enemy EXCEPT !.x = @ + Sign(dx) * enemy.speed,
                                    !.facingLeft = IF enemy.type = "crow" THEN dx < 0 ELSE @]
                 ELSE enemy
    IN  [w |-> [w EXCEPT !.enemies[index] = moved],
         index |-> index,
         enemy |-> moved,
         call |-> [id |-> enemy.id, damage |-> enemy.damage,
                   inRange |-> dist < Px(enemy.size + 20), contact |-> FALSE,
                   hpBefore |-> w.player.hp, hpAfter |-> w.player.hp,
                   invulnerable |-> w.player.invulnerable, gameOver |-> w.gameOver,
                   enemyHpBefore |-> enemy.hp, enemyHp |-> enemy.hp,
                   xpValue |-> enemy.xpValue,
                   killsBefore |-> w.kills, killsAfter |-> w.kills,
                   clawHit |-> FALSE, dead |-> FALSE, removed |-> <<>>,
                   others |-> Ids(w.enemies) \ {enemy.id}]]

\* the hit without the invulnerability it grants
PlayerHitNoGrace(w, index, finalDamage) ==
    [w EXCEPT !.player.hp = @ - finalDamage,
              !.enemies = Splice(@, index)]

\* the player takes finalDamage from the enemy at index, which is removed
PlayerHit(w, index, finalDamage) ==
    [w EXCEPT !.player.hp = @ - finalDamage,
              !.player.invulnerable = 60,
              !.enemies = Splice(@, index)]

\* Part 2: collision with the player
EnemyContact(c) ==
    LET reduced == IF c.w.abilities.catNap.level >= 2
                   THEN Floor(c.enemy.damage * 95, 100) ELSE c.enemy.damage
        finalDamage == Max(1, reduced)
        hp1 == c.w.player.hp - finalDamage
    IN  IF c.call.inRange /\ c.w.player.invulnerable <= 0
        THEN [c EXCEPT !.w = IF hp1 <= 0
                             THEN GameOver(PlayerHit(c.w, c.index, finalDamage))
                             ELSE PlayerHit(c.w, c.index, finalDamage),
                       !.call.contact = TRUE,
                       !.call.hpAfter = hp1,
                       !.call.invulnerable = 60,
                       !.call.gameOver = c.w.gameOver \/ hp1 <= 0,
                       !.call.removed = <<c.enemy.id>>]
        ELSE c

\* Part 3: collision with the claws
EnemyClaws(c, clawOn) ==
    LET lvl == c.w.abilities.clawOrbit.level
        clawSize == IF lvl >= 4 THEN 20 ELSE 16
        clawHit == /\ lvl > 0
                   /\ Len(c.w.claws) > 0
                   /\ c.enemy.id \in clawOn
                   /\ Abs(Abs(c.enemy.x - c.w.player.x) - Px(c.w.claws[1].distance))
                        < Px(clawSize + c.enemy.size)
        afterimage == Hp(Floor(AbilityDefs.clawOrbit.damage * 4, 10))
        struck == [c.enemy EXCEPT !.hp = @ - ClawDamage(lvl)]
    IN  IF clawHit
        THEN [c EXCEPT !.w = [c.w EXCEPT
                                 !.timers = IF lvl >= 5
                                            THEN Append(@, [target |-> c.enemy.id,
                                                            damage |-> afterimage,
                                                            delay |-> 150])
                                            ELSE @,
                                 !.enemies = IF c.call.contact THEN @
                                             ELSE [@ EXCEPT ![c.index] = struck]],
                       !.enemy = struck,
                       !.call.clawHit = TRUE,
                       !.call.enemyHp = struck.hp]
        ELSE c

\* the removal of the dead enemy without kills++
EnemyDeadNoKill(c, coins) ==
    IF c.enemy.hp <= 0
    THEN [c EXCEPT !.w = [DropXP(c.w, c.enemy.x, c.enemy.xpValue, coins) EXCEPT
                             !.enemies = Splice(@, c.index)],
                   !.call.dead = TRUE,
                   !.call.removed = @ \o (IF c.index <= Len(c.w.enemies)
                                          THEN <<c.w.enemies[c.index].id>> ELSE <<>>)]
    ELSE c

\* Part 4: removal of the dead enemy
EnemyDead(c, coins) ==
    IF c.enemy.hp <= 0
    THEN [c EXCEPT !.w = [DropXP(c.w, c.enemy.x, c.enemy.xpValue, coins) EXCEPT
                             !.enemies = Splice(@, c.index), !.kills = @ + 1],
                   !.call.dead = TRUE,
                   !.call.killsAfter = c.w.kills + 1,
                   !.call.removed = @ \o (IF c.index <= Len(c.w.enemies)
                                          THEN <<c.w.enemies[c.index].id>> ELSE <<>>)]
    ELSE c

\* the world after the call, with the call recorded
EnemyCalled(c) == [c.w EXCEPT !.log.calls = Append(@, c.call)]

EnemyCallback(w, index, clawOn, coins) ==
    EnemyCalled(EnemyDead(EnemyClaws(EnemyContact(EnemyMove(w, index)), clawOn), coins))

\* enemies.forEach: indices 1..n of the array as it is when each is reached
RECURSIVE EnemiesForEach(_, _, _, _, _)
EnemiesForEach(w, index, n, clawOn, coins) ==
    IF index > n \/ index > Len(w.enemies) THEN w
    ELSE EnemiesForEach(EnemyCallback(w, index, clawOn, coins), index + 1, n, clawOn, coins)

\* updateEnemies
UpdateEnemies(w, clawOn, coins) ==
    LET w1 == EnemiesForEach(w, 1, Len(w.enemies), clawOn, coins)
    IN  [w1 EXCEPT !.player.invulnerable = IF @ > 0 THEN @ - 1 ELSE @]

\* ---------------------------------------------------------------- projectiles
\* proj.x += proj.dx; proj.life++
ProjectileMoved(proj) == [proj EXCEPT !.x = @ + proj.dx, !.life = @ + 1]

\* the inner forEach with a hairball that bounces staying in the array
RECURSIVE ProjectileHitsBounce(_, _, _, _)
ProjectileHitsBounce(v, proj, projIndex, k) ==
    IF k > Len(v.enemies) THEN v
    ELSE IF Abs(proj.x - v.enemies[k].x) < Px(v.enemies[k].size + 5)
    THEN ProjectileHitsBounce([v EXCEPT !.enemies[k].hp = @ - proj.damage,
                                        !.projectiles = IF proj.pierce \/ proj.bounce THEN @
                                                        ELSE Splice(@, projIndex),
                                        !.log.hits = Append(@, [proj |-> proj.id,
                                                                enemy |-> v.enemies[k].id,
                                                                shot |-> proj])],
                              proj, projIndex, k + 1)
    ELSE ProjectileHitsBounce(v, proj, projIndex, k + 1)

\* the inner enemies.forEach of updateProjectiles, from enemy k on
RECURSIVE ProjectileHits(_, _, _, _)
ProjectileHits(v, proj, projIndex, k) ==
    IF k > Len(v.enemies) THEN v
    ELSE IF Abs(proj.x - v.enemies[k].x) < Px(v.enemies[k].size + 5)
    THEN ProjectileHits([v EXCEPT !.enemies[k].hp = @ - proj.damage,
                                  !.projectiles = IF proj.pierce THEN @
                                                  ELSE Splice(@, projIndex),
                                  !.log.hits = Append(@, [proj |-> proj.id,
                                                          enemy |-> v.enemies[k].id,
                                                          shot |-> proj])],
                        proj, projIndex, k + 1)
    ELSE ProjectileHits(v, proj, projIndex, k + 1)

\* removal of a projectile that is too far
ProjectileExpire(v, proj, projIndex) ==
    IF \/ proj.x < Px(-50)
       \/ proj.x > Px(CanvasWidth + 50)
       \/ (proj.range # <<>> /\ proj.life > proj.range[1])
    THEN [v EXCEPT !.projectiles = Splice(@, projIndex)]
    ELSE v

\* The callback of projectiles.forEach in updateProjectiles.
ProjectileCallback(w, projIndex) ==
    ProjectileExpire(
        ProjectileHits([w EXCEPT !.projectiles[projIndex] = ProjectileMoved(@)],
                       ProjectileMoved(w.projectiles[projIndex]), projIndex, 1),
        ProjectileMoved(w.projectiles[projIndex]), projIndex)

RECURSIVE ProjectilesForEach(_, _, _)
ProjectilesForEach(w, index, n) ==
    IF index > n \/ index > Len(w.projectiles) THEN w
    ELSE ProjectilesForEach(ProjectileCallback(w, index), index + 1, n)

\* updateProjectiles
UpdateProjectiles(w) == ProjectilesForEach(w, 1, Len(w.projectiles))

\* ---------------------------------------------------------------- progression
\* the growth of xpNext with the rate 1.18 from level 6 on
NextXpNextTwoRates(newLevel, xpNext) ==
    IF newLevel <= 5 THEN Floor(xpNext * 112, 100)
    ELSE Floor(xpNext * 118, 100)

\* the growth of xpNext with an early rate of 1.05
NextXpNextSlow(newLevel, xpNext) ==
    IF newLevel <= 5 THEN Floor(xpNext * 105, 100)
    ELSE IF newLevel <= 10 THEN Floor(xpNext * 115, 100)
    ELSE Floor(xpNext * 118, 100)

\* xpNext after a level-up to newLevel
NextXpNext(newLevel, xpNext) ==
    IF newLevel <= 5 THEN Floor(xpNext * 112, 100)
    ELSE IF newLevel <= 10 THEN Floor(xpNext * 115, 100)
    ELSE Floor(xpNext * 118, 100)

\* The collection of upgrades without the test level < maxLevel
RECURSIVE AvailableUpgradesNoFilter(_, _)
AvailableUpgradesNoFilter(ab, i) ==
    IF i > Len(AbilityKeys) THEN <<>>
    ELSE LET key == AbilityKeys[i]
         IN  <<[key |-> key, name |-> AbilityDefs[key].name,
                description |-> AbilityDefs[key].descriptions[Min(ab[key].level + 1, 5)],
                isNew |-> ab[key].level = 0]>> \o AvailableUpgradesNoFilter(ab, i + 1)

\* The upgrades showLevelUpModal collects, in the key order of abilities
RECURSIVE AvailableUpgrades(_, _)
AvailableUpgrades(ab, i) ==
    IF i > Len(AbilityKeys) THEN <<>>
    ELSE LET key == AbilityKeys[i]
         IN  (IF ab[key].level < AbilityDefs[key].maxLevel
              THEN <<[key |-> key, name |-> AbilityDefs[key].name,
                      description |-> AbilityDefs[key].descriptions[ab[key].level + 1],
                      isNew |-> ab[key].level = 0]>>
              ELSE <<>>) \o AvailableUpgrades(ab, i + 1)

\* The selection loop without the splice of the chosen upgrade
RECURSIVE SelectUpgradesWithReplacement(_, _, _)
SelectUpgradesWithReplacement(available, selected, picks) ==
    IF Len(selected) < 2 /\ Len(available) > 0
    THEN LET randomIndex == picks[Len(selected) + 1]
         IN  SelectUpgradesWithReplacement(available,
                                           Append(selected, available[randomIndex + 1]), picks)
    ELSE selected

\* The selection loop; picks[j] is Math.floor(Math.random() * length) of round j
RECURSIVE SelectUpgrades(_, _, _)
SelectUpgrades(available, selected, picks) ==
    IF Len(selected) < 2 /\ Len(available) > 0
    THEN LET randomIndex == picks[Len(selected) + 1]
         IN  SelectUpgrades(Splice(available, randomIndex + 1),
                            Append(selected, available[randomIndex + 1]), picks)
    ELSE selected

\* showLevelUpModal: the modal opens with the selected upgrades
OpenModal(w, selected) ==
    [w EXCEPT !.paused = TRUE,
              !.offer = selected,
              !.modalShown = TRUE,
              !.log.offers = Append(@, [available |-> Len(AvailableUpgrades(w.abilities, 1)),
                                        selected |-> selected])]

\* showLevelUpModal
ShowLevelUpModal(w, picks) ==
    OpenModal(w, SelectUpgrades(AvailableUpgrades(w.abilities, 1), <<>>, picks))

\* levelUp that resets xp to 0 instead of carrying the remainder
LevelUpResetsXp(w, picks) ==
    LET p == w.player
        p1 == [p EXCEPT !.level = @ + 1,
                        !.xp = 0,
                        !.xpNext = NextXpNext(p.level + 1, p.xpNext),
                        !.maxHp = 100,
                        !.hp = Min(100, @ + 20)]
    IN  ShowLevelUpModal([w EXCEPT !.player = p1,
                                   !.log.levelUps = Append(@, [before |-> p, after |-> p1])],
                         picks)

\* levelUp
LevelUp(w, picks) ==
    LET p == w.player
        p1 == [p EXCEPT !.level = @ + 1,
                        !.xp = @ - p.xpNext,
                        !.xpNext = NextXpNext(p.level + 1, p.xpNext),
                        !.maxHp = 100,
                        !.hp = Min(100, @ + 20)]
    IN  ShowLevelUpModal([w EXCEPT !.player = p1,
                                   !.log.levelUps = Append(@, [before |-> p, after |-> p1])],
                         picks)

\* The callback of xpOrbs.forEach in updateXP, in three parts.  Between the
\* parts c holds the world (c.w), the callback's `orb` object (c.orb) and the
\* record of the call (c.seen).  The step towards the player (dx * 0.1) is
\* rounded to the position unit.
\* Part 1: an orb closer than 30 moves towards the player.
OrbAttract(w, index) ==
    LET orb == w.xpOrbs[index]
        dx == w.player.x - orb.x
        dist == Abs(dx)
        pulled == IF dist < Px(30)
                  THEN [orb EXCEPT !.x = @ + Sign(dx) * (Abs(dx) \div 10)]
                  ELSE orb
    IN  [w |-> [w EXCEPT !.xpOrbs[index] = pulled],
         index |-> index,
         orb |-> pulled,
         seen |-> [id |-> orb.id, dist |-> dist, value |-> orb.value,
                   collect |-> dist < Px(20), life |-> orb.life, removed |-> <<>>]]

\* the credit without the splice of the collected orb
OrbCreditKeepsOrb(w, orb, index) ==
    [w EXCEPT !.player.xp = @ + orb.value,
              !.credited = @ \cup {orb.id},
              !.log.credits = Append(@, [id |-> orb.id, value |-> orb.value,
                                         xpBefore |-> w.player.xp,
                                         xpAfter |-> w.player.xp + orb.value,
                                         xpNext |-> w.player.xpNext])]

\* gameState.player.xp += orb.value; xpOrbs.splice(index, 1)
OrbCredit(w, orb, index) ==
    [w EXCEPT !.player.xp = @ + orb.value,
              !.xpOrbs = Splice(@, index),
              !.credited = @ \cup {orb.id},
              !.log.credits = Append(@, [id |-> orb.id, value |-> orb.value,
                                         xpBefore |-> w.player.xp,
                                         xpAfter |-> w.player.xp + orb.value,
                                         xpNext |-> w.player.xpNext])]

\* the level-up check that follows a credit
LevelUpCheck(w, picks) ==
    IF w.player.xp >= w.player.xpNext THEN LevelUp(w, picks) ELSE w

\* Part 2: collection
OrbCollect(c, picks) ==
    IF c.seen.collect
    THEN [c EXCEPT !.w = LevelUpCheck(OrbCredit(c.w, c.orb, c.index), picks),
                   !.seen.removed = <<c.orb.id>>]
    ELSE c

\* the orb object ages; it is still in the array unless it was collected
OrbAged(c) ==
    IF c.seen.collect THEN c.w
    ELSE [c.w EXCEPT !.xpOrbs[c.index].life = @ - 1]

\* Part 3: orb.life--, and removal at the end of its life
OrbExpire(c) ==
    IF c.orb.life - 1 <= 0
    THEN [c EXCEPT !.w = [OrbAged(c) EXCEPT !.xpOrbs = Splice(@, c.index)],
                   !.seen.life = c.orb.life - 1,
                   !.seen.removed = @ \o (IF c.index <= Len(OrbAged(c).xpOrbs)
                                          THEN <<OrbAged(c).xpOrbs[c.index].id>>
                                          ELSE <<>>)]
    ELSE [c EXCEPT !.w = OrbAged(c), !.seen.life = c.orb.life - 1]

\* the world after the call, with the call recorded
OrbCalled(c) == [c.w EXCEPT !.log.orbs = Append(@, c.seen)]

OrbCallback(w, index, picks) ==
    OrbCalled(OrbExpire(OrbCollect(OrbAttract(w, index), picks)))

RECURSIVE OrbsForEach(_, _, _, _)
OrbsForEach(w, index, n, picks) ==
    IF index > n \/ index > Len(w.xpOrbs) THEN w
    ELSE OrbsForEach(OrbCallback(w, index, picks), index + 1, n, picks)

\* updateXP
UpdateXP(w, picks) == OrbsForEach(w, 1, Len(w.xpOrbs), picks)

\* selectUpgrade without the call of initClawOrbit
SelectUpgradeNoRebuild(w, abilityKey) ==
    [w EXCEPT !.abilities[abilityKey].level = @ + 1, !.modalShown = FALSE, !.paused = FALSE]

\* selectUpgrade that leaves the modal and its buttons on the page
SelectUpgradeKeepsModal(w, abilityKey) ==
    LET w1 == [w EXCEPT !.abilities[abilityKey].level = @ + 1]
        w2 == IF abilityKey = "clawOrbit" THEN InitClawOrbit(w1) ELSE w1
    IN  [w2 EXCEPT !.paused = FALSE]

\* selectUpgrade that starts the cooldown of the raised ability afresh
SelectUpgradeResetsCooldown(w, abilityKey) ==
    LET w1 == [w EXCEPT !.abilities[abilityKey].level = @ + 1,
                        !.abilities[abilityKey].cooldown = 0]
        w2 == IF abilityKey = "clawOrbit" THEN InitClawOrbit(w1) ELSE w1
    IN  [w2 EXCEPT !.modalShown = FALSE, !.paused = FALSE]

\* selectUpgrade(abilityKey)
SelectUpgrade(w, abilityKey) ==
    LET w1 == [w EXCEPT !.abilities[abilityKey].level = @ + 1]
        w2 == IF abilityKey = "clawOrbit" THEN InitClawOrbit(w1) ELSE w1
    IN  [w2 EXCEPT !.modalShown = FALSE, !.paused = FALSE]

\* ---------------------------------------------------------------- particles
RECURSIVE ParticlesForEach(_, _, _)
ParticlesForEach(w, index, n) ==
    IF index > n \/ index > Len(w.particles) THEN w
    ELSE LET life == w.particles[index].life - 1
             w1 == [w EXCEPT !.particles[index].life = life]
         IN  ParticlesForEach(IF life <= 0
                              THEN [w1 EXCEPT !.particles = Splice(@, index)] ELSE w1,
                              index + 1, n)

\* updateParticles
UpdateParticles(w) == ParticlesForEach(w, 1, Len(w.particles))

\* ---------------------------------------------------------------- tick driver
\* gameState.time++
Tick(w) == [w EXCEPT !.time = @ + 1, !.ticks = @ + 1]

\* the update calls of one unpaused frame, in the order of gameLoop
UpdateWorld(w, in) ==
    UpdateParticles(
        UpdateXP(
            UpdateProjectiles(
                UpdateEnemies(
                    SpawnEnemies(UpdateAbilities(UpdatePlayer(Tick(w)), in.angles), in.spawn),
                    in.clawOn, in.coins)),
            in.picks))

\* requestAnimationFrame(gameLoop)
RequestFrame(w) == [w EXCEPT !.rafPending = @ + 1]

\* updateUI with a wave that changes one tick late
UpdateUILate(w) == [w EXCEPT !.waveText = <<Floor(w.time - 1, 1500) + 1>>]

\* updateUI: the wave it computes and writes to #wave
UpdateUI(w) == [w EXCEPT !.waveText = <<Floor(w.time, 1500) + 1>>]

\* gameLoop without the gameOver test
GameLoopNeverStops(w, in) ==
    RequestFrame(UpdateUI(IF w.paused THEN w ELSE UpdateWorld(w, in)))

\* gameLoop, run as a frame callback; in holds the values Math.random()
\* returns during the frame
GameLoop(w, in) ==
    IF w.gameOver THEN w
    ELSE RequestFrame(UpdateUI(IF w.paused THEN w ELSE UpdateWorld(w, in)))

\* The fresh gameState.player of startGame
NewPlayer ==
    [x |-> Px(600), hp |-> 100, maxHp |-> 100, level |-> 1, xp |-> 0, xpNext |-> 10,
     invulnerable |-> 0, facingLeft |-> FALSE]

\* startGame up to (not including) its call of gameLoop
StartGameReset(w) ==
    InitClawOrbit(
        [w EXCEPT !.player = NewPlayer,
                  !.time = 0, !.kills = 0, !.paused = FALSE, !.gameOver = FALSE,
                  !.abilities = [k \in AbilityKeySet |->
                                    [level |-> IF AbilityDefs[k].name = "Claw Orbit" THEN 1 ELSE 0,
                                     cooldown |-> 0]],
                  !.enemies = <<>>, !.projectiles = <<>>, !.xpOrbs = <<>>,
                  !.particles = <<>>,
                  !.gameOverShown = FALSE, !.modalShown = FALSE, !.overlayShown = FALSE])

\* the world as startGame hands it to gameLoop (observation only)
AtLoopStart(w) ==
    [w EXCEPT !.log.started =
        <<[player |-> w.player, time |-> w.time, kills |-> w.kills, paused |-> w.paused,
           gameOver |-> w.gameOver, abilities |-> w.abilities, claws |-> w.claws,
           rotation |-> w.rotation, enemies |-> w.enemies, projectiles |-> w.projectiles,
           xpOrbs |-> w.xpOrbs, particles |-> w.particles]>>]

\* startGame
StartGame(w, in) == GameLoop(AtLoopStart(StartGameReset(w)), in)

\* ---------------------------------------------------------------- page load
\* the keys of the sprites registry
Sprites == {"player", "dog", "crow", "rat", "paw"}
TotalSprites == Cardinality(Sprites)

\* onSpriteLoad
OnSpriteLoad(w) ==
    IF w.spritesLoaded + 1 = TotalSprites
    THEN (IF w.readyState = "loading"
          THEN [w EXCEPT !.spritesLoaded = @ + 1, !.domListeners = @ + 1]
          ELSE InitializeGame([w EXCEPT !.spritesLoaded = @ + 1]))
    ELSE [w EXCEPT !.spritesLoaded = @ + 1]

\* onSpriteError that logs the failure and does not count the attempt
OnSpriteErrorUncounted(w, in) == w

\* onSpriteError; in holds the random draws of the gameLoop that startGame runs
OnSpriteError(w, in) ==
    IF w.spritesLoaded + 1 = TotalSprites
    THEN StartGame([w EXCEPT !.spritesLoaded = @ + 1], in)
    ELSE [w EXCEPT !.spritesLoaded = @ + 1]

\* the DOMContentLoaded listeners, each calling initializeGame
RECURSIVE RunListeners(_, _)
RunListeners(w, n) == IF n = 0 THEN w ELSE RunListeners(InitializeGame(w), n - 1)

\* a deferred hit that falls on the first enemy of the array when its own
\* target has left it
FireTimerHitsFirst(w, i) ==
    LET t == w.timers[i]
    IN  [w EXCEPT !.timers = Splice(@, i),
                  !.log.fired = <<t>>,
                  !.enemies = [k \in 1..Len(w.enemies) |->
                                  IF w.enemies[k].id = t.target
                                     \/ (t.target \notin Ids(w.enemies) /\ k = 1)
                                  THEN [w.enemies[k] EXCEPT !.hp = @ - t.damage]
                                  ELSE w.enemies[k]]]

\* A deferred hit fires: enemy.hp -= damage on the enemy object it captured
FireTimer(w, i) ==
    LET t == w.timers[i]
    IN  [w EXCEPT !.timers = Splice(@, i),
                  !.log.fired = <<t>>,
                  !.enemies = [k \in 1..Len(w.enemies) |->
                                  IF w.enemies[k].id = t.target
                                  THEN [w.enemies[k] EXCEPT !.hp = @ - t.damage]
                                  ELSE w.enemies[k]]]

\* ---------------------------------------------------------------- inputs
KeyNames == {"a", "arrowright"}

NoCoins(w) == [i \in 1..(Len(w.enemies) + 1) |-> FALSE]

DefaultInput(w) ==
    [spawn |-> [roll |-> 999, rand |-> 0, side |-> 1],
     angles |-> <<1, 1>>, clawOn |-> {}, coins |-> NoCoins(w), picks |-> <<0, 0>>]

\* Math.random() results that matter to spawnEnemies in this frame
SpawnInputs(w) ==
    LET wave == WaveNumber(w.time + 1)
        rands == {10, 65, 90}
    IN  {[roll |-> 999, rand |-> 0, side |-> 1]}
        \cup {[roll |-> 0, rand |-> r, side |-> 1] : r \in rands}

\* directions of the hairballs fired in this frame
AngleInputs(w) ==
    IF w.abilities.hairballBurst.level > 0 /\ w.abilities.hairballBurst.cooldown <= 1
    THEN (IF w.abilities.hairballBurst.level >= 3
          THEN {<<a, b>> : a \in {1, -1}, b \in {1, -1}}
          ELSE {<<1, 1>>, <<-1, 1>>})
    ELSE {<<1, 1>>}

\* enemies a claw can lie next to in this frame
ClawInputs(w) ==
    LET lvl == w.abilities.clawOrbit.level
        reach(e) == Px((IF lvl >= 4 THEN 20 ELSE 16) + e.size + PlayerSpeed) + e.speed
        near == {k \in 1..Len(w.enemies) :
                    Abs(Abs(w.enemies[k].x - w.player.x) - Px(55)) < reach(w.enemies[k])}
    IN  SUBSET {w.enemies[k].id : k \in near}

\* first and second random index of showLevelUpModal: the lowest and the
\* highest value of each
PickInputs(w) ==
    LET n == Len(AvailableUpgrades(w.abilities, 1))
    IN  {<<a, b>> : a \in {0, Max(n - 1, 0)}, b \in {0, Max(n - 2, 0)}}

\* All inputs of one run of gameLoop from w.  The outcomes of dropXP and the
\* picks of showLevelUpModal are enumerated only for the calls the frame makes.
FrameInputs(w) ==
    IF w.gameOver \/ w.paused THEN {DefaultInput(w)}
    ELSE LET base == {[DefaultInput(w) EXCEPT !.spawn = sp, !.angles = an, !.clawOn = co] :
                         sp \in SpawnInputs(w), an \in AngleInputs(w),
                         co \in ClawInputs(w)}
             withCoins(b) == IF w.enemies = <<>> THEN {b}
                             ELSE {[b EXCEPT !.coins = [i \in 1..(Len(w.enemies) + 1) |->
                                                          i \in c]] :
                                      c \in SUBSET (1..(GameLoop(w, b).log.drops))}
             withPicks(b) == IF (w.xpOrbs = <<>> /\ w.enemies = <<>>)
                                \/ GameLoop(w, b).log.levelUps = <<>>
                             THEN {b}
                             ELSE {[b EXCEPT !.picks = pk] : pk \in PickInputs(w)}
         IN  UNION {UNION {withPicks(c) : c \in withCoins(b)} : b \in base}

\* ---------------------------------------------------------------- initial states
\* xpNext of a player of the given level
RECURSIVE XpNextAt(_)
XpNextAt(level) == IF level <= 1 THEN 10 ELSE NextXpNext(level, XpNextAt(level - 1))

Levels(c, w, h, p, n) ==
    [clawOrbit |-> c, whiskerWhip |-> w, hairballBurst |-> h, pawSlam |-> p, catNap |-> n]
LevelSum(lv) == lv.clawOrbit + lv.whiskerWhip + lv.hairballBurst + lv.pawSlam + lv.catNap

\* The page after the script has run and initializeGame has shown the overlay
BootWorld(st) ==
    [player |-> NewPlayer, time |-> 0, kills |-> 0, paused |-> FALSE, gameOver |-> FALSE,
     abilities |-> [k \in AbilityKeySet |-> [level |-> AbilityDefs[k].level, cooldown |-> 0]],
     claws |-> <<>>, rotation |-> 0, enemies |-> <<>>, projectiles |-> <<>>,
     xpOrbs |-> <<>>, particles |-> <<>>, timers |-> <<>>, store |-> st,
     displayHighScore |-> <<GetHighScore(st)>>, waveText |-> <<>>,
     spritesLoaded |-> TotalSprites, spritesPending |-> {}, readyState |-> "complete",
     domListeners |-> 1,
     modalShown |-> FALSE, offer |-> <<>>, gameOverShown |-> FALSE, overlayShown |-> TRUE,
     rafPending |-> 0, keys |-> {}, keyEvents |-> 0, nextId |-> 1, spawns |-> 0,
     credited |-> {},
     ticks |-> 0,
     log |-> EmptyLog("init")]

\* The page when the script has run to its end: the five loads are under way
\* and the document is still loading.  shown tells whether the page displays
\* #startOverlay before initializeGame does.
LoadingWorld(st, shown) ==
    [BootWorld(st) EXCEPT !.displayHighScore = <<>>, !.spritesLoaded = 0,
                          !.spritesPending = Sprites, !.readyState = "loading",
                          !.overlayShown = shown]

\* The cooldown of ability k in scenario sc: 1 when it is about to fire; what
\* is left since the shot when a projectile of the ability is in flight
CooldownAt(sc, k) ==
    LET type == IF k = "whiskerWhip" THEN "whip" ELSE "hairball"
        shots == {i \in 1..Len(sc.projectiles) : sc.projectiles[i].type = type}
        full == IF k = "whiskerWhip"
                THEN (IF sc.levels[k] >= 2
                      THEN Floor(AbilityDefs.whiskerWhip.maxCooldown * 7, 10)
                      ELSE AbilityDefs.whiskerWhip.maxCooldown)
                ELSE AbilityDefs.hairballBurst.maxCooldown
    IN  IF sc.levels[k] = 0 \/ k = "clawOrbit" THEN 0
        ELSE IF k \in sc.ready THEN 1
        ELSE IF k \in {"whiskerWhip", "hairballBurst"} /\ shots # {}
        THEN full - sc.projectiles[CHOOSE i \in shots : TRUE].life
        ELSE 60

\* A running game between two frames.  sc gives the upgrades chosen so far
\* (levels), the frame count (t), the abilities about to fire (ready), and
\* the entities around the player, as offsets in px from the player.
MidRunWorld(sc) ==
    LET level == LevelSum(sc.levels)
        wave == WaveNumber(sc.t)
        px == Px(600)
        boot == BootWorld(sc.store)
        w0 == [boot EXCEPT
                 !.player = [x |-> px, hp |-> sc.hp, maxHp |-> 100, level |-> level,
                             xp |-> XpNextAt(level) - sc.xpGap, xpNext |-> XpNextAt(level),
                             invulnerable |-> sc.inv, facingLeft |-> FALSE],
                 !.time = sc.t, !.kills = sc.kills, !.waveText = <<WaveNumber(sc.t)>>,
                 !.abilities = [k \in AbilityKeySet |->
                                   [level |-> sc.levels[k],
                                    cooldown |-> CooldownAt(sc, k)]],
                 !.rotation = sc.t,
                 !.enemies = [i \in 1..Len(sc.enemies) |->
                                 [NewEnemy(100 + i, sc.enemies[i].type, wave, level,
                                           px + Px(sc.enemies[i].off))
                                  EXCEPT !.hp = @ - sc.enemies[i].lost]],
                 !.xpOrbs = [i \in 1..Len(sc.orbs) |->
                                [id |-> 200 + i, x |-> px + Px(sc.orbs[i].off),
                                 value |-> sc.orbs[i].value, life |-> sc.orbs[i].life,
                                 born |-> sc.t - (599 - sc.orbs[i].life)]],
                 !.projectiles = [i \in 1..Len(sc.projectiles) |->
                                     IF sc.projectiles[i].type = "whip"
                                     THEN [id |-> 300 + i, x |-> px + Px(sc.projectiles[i].off),
                                           dx |-> Px(4),
                                           damage |-> Hp(AbilityDefs.whiskerWhip.damage),
                                           range |-> <<80>>, pierce |-> FALSE, bounce |-> FALSE,
                                           explode |-> FALSE, type |-> "whip",
                                           life |-> sc.projectiles[i].life]
                                     ELSE [id |-> 300 + i, x |-> px + Px(sc.projectiles[i].off),
                                           dx |-> Px(3),
                                           damage |-> IF sc.levels.hairballBurst >= 2
                                                      THEN Floor(Hp(AbilityDefs.hairballBurst.damage) * 15, 10)
                                                      ELSE Hp(AbilityDefs.hairballBurst.damage),
                                           range |-> <<>>, pierce |-> FALSE,
                                           bounce |-> sc.levels.hairballBurst >= 4,
                                           explode |-> sc.levels.hairballBurst >= 5,
                                           type |-> "hairball",
                                           life |-> sc.projectiles[i].life]],
                 !.overlayShown = FALSE, !.rafPending = 1, !.keys = sc.keys]
        w1 == InitClawOrbit(w0)
    IN  [w1 EXCEPT !.claws = [i \in 1..Len(w1.claws) |-> [w1.claws[i] EXCEPT !.placed = TRUE]]]

En(type, off, lost) == [type |-> type, off |-> off, lost |-> lost]
Orb(off, value, life) == [off |-> off, value |-> value, life |-> life]
Whip(off, life) == [off |-> off, life |-> life, type |-> "whip"]
Hairball(off, life) == [off |-> off, life |-> life, type |-> "hairball"]

Plain ==
    [levels |-> Levels(1, 0, 0, 0, 0), t |-> 1498, hp |-> 100, xpGap |-> 10, inv |-> 0,
     kills |-> 0, ready |-> {}, enemies |-> <<>>, orbs |-> <<>>, projectiles |-> <<>>,
     store |-> <<>>, keys |-> {}]

\* enemies reaching the player: first wave, rats only
ContactScenarios ==
    {[Plain EXCEPT !.hp = h, !.inv = i, !.enemies = es, !.kills = 4, !.store = << <<"3">> >>] :
        h \in {100, 2}, i \in {0, 1},
        es \in {<<En("rat", 25, 0)>>,
                <<En("rat", 25, 0), En("rat", -26, 0)>>,
                <<En("rat", -50, 0), En("rat", 25, 0)>>,
                <<En("rat", -50, 0), En("rat", 25, 0), En("rat", 200, 0), En("rat", -26, 0)>>}}

\* second wave, whip owned: a dog in reach of player and claw, a whip in flight
DogScenarios ==
    LET base == [Plain EXCEPT !.levels = Levels(1, 1, 0, 0, 0), !.t = 1600, !.kills = 9,
                              !.store = << <<"1", "2">> >>]
    IN  {[base EXCEPT !.hp = h, !.inv = i,
                      !.enemies = <<En("dog", 31, Hp(24)), En("rat", 200, 0)>>] :
            h \in {100, 7}, i \in {0, 1}}
        \cup
        {[base EXCEPT !.hp = h, !.inv = i,
                      !.enemies = <<En("rat", 25, 0), En("rat", -200, 0)>>,
                      !.projectiles = <<Whip(20, 5)>>] :
            h \in {100, 2}, i \in {0, 1}}

\* orbs around the player, first wave
OrbScenarios ==
    {[Plain EXCEPT !.xpGap = g, !.orbs = os, !.keys = {"arrowright"}] :
        g \in {2, 10},
        os \in {<<Orb(10, 2, 300)>>,
                <<Orb(10, 2, 200), Orb(-15, 2, 300)>>,
                <<Orb(10, 2, 1), Orb(300, 2, 300)>>,
                <<Orb(25, 2, 300)>>}}
    \cup
    \* wave 35: the orb of a rat is worth floor(2 * (1 + 34 * 0.12)) = 10
    {[Plain EXCEPT !.t = 61200, !.orbs = <<Orb(10, 10, 300)>>]}

\* deferred hits: claw afterimages (Claw Orbit 5) and the double slam (Paw Slam 5)
TimerScenarios ==
    {[Plain EXCEPT !.levels = Levels(5, 0, 0, 0, 0), !.t = 1600,
                   !.enemies = <<En("dog", -50, 0)>>],
     [Plain EXCEPT !.levels = Levels(1, 0, 0, 5, 0), !.t = 1600, !.xpGap = 2,
                   !.ready = {"pawSlam"},
                   !.enemies = <<En("dog", 40, 0)>>, !.orbs = <<Orb(10, 2, 300)>>]}

\* Cat Nap about to heal, with and without a level-up in the same frame
HealScenarios ==
    {[Plain EXCEPT !.levels = Levels(1, 0, 0, 0, n), !.t = 3100, !.hp = h, !.xpGap = 2,
                   !.ready = {"catNap"}, !.orbs = os] :
        n \in {1, 4}, h \in {100, 85}, os \in {<<>>, <<Orb(10, 2, 300)>>}}

\* late builds: few or no upgrades left to offer
LateScenarios ==
    {[Plain EXCEPT !.levels = lv, !.t = 30000, !.hp = 60, !.xpGap = 2,
                   !.orbs = <<Orb(10, 2, 300)>>] :
        lv \in {Levels(4, 0, 0, 0, 0), Levels(4, 1, 1, 1, 0), Levels(5, 5, 5, 4, 5), Levels(5, 5, 5, 5, 4),
                Levels(5, 5, 5, 5, 5)}}

\* wave 13, level 5: the orb of a crow is worth floor(6 * 2.44 * 1.2) = 17,
\* more than the 14 xp of this level and the 16 of the next together need
CarryScenarios ==
    {[Plain EXCEPT !.levels = Levels(2, 1, 1, 1, 0), !.t = 18000, !.xpGap = 1,
                   !.orbs = os] :
        os \in {<<Orb(10, 17, 300)>>,
                <<Orb(10, 17, 300), Orb(300, 17, 300), Orb(-10, 17, 300)>>}}

\* second wave: a whip in flight, or the two hairballs of one burst flying
\* the same way, reach two rats that walk 7 px apart
VolleyScenarios ==
    {[Plain EXCEPT !.levels = Levels(1, 1, 0, 0, 0), !.t = 1600,
                   !.enemies = <<En("rat", 105, 0), En("rat", 112, 0)>>,
                   !.projectiles = <<Whip(100, 25)>>],
     [Plain EXCEPT !.levels = Levels(1, 0, 3, 0, 0), !.t = 1600,
                   !.enemies = <<En("rat", 105, 0), En("rat", 112, 0)>>,
                   !.projectiles = <<Hairball(99, 33), Hairball(99, 33)>>],
     [Plain EXCEPT !.levels = Levels(1, 0, 5, 0, 0), !.t = 1600,
                   !.enemies = <<En("rat", 105, 0)>>,
                   !.projectiles = <<Hairball(99, 33), Hairball(99, 33)>>]}

\* seven orbs dropped in the same tick, 598 ticks ago, two of them within
\* reach of the player, who has just come back to them
StaleScenarios ==
    {[Plain EXCEPT !.orbs = <<Orb(10, 2, 1), Orb(300, 2, 1), Orb(-10, 2, 1), Orb(310, 2, 1),
                              Orb(320, 2, 1), Orb(330, 2, 1), Orb(340, 2, 1)>>]}

\* first wave: the last 2 hp, a rat at the player, and the orb that fills
\* the level within reach; second wave: the last 7 hp, a wounded dog in reach
\* of player and claw, the kills of the run level with the stored high score
LastStandScenarios ==
    {[Plain EXCEPT !.hp = 2, !.xpGap = 2, !.kills = 4, !.store = << <<"3">> >>,
                   !.enemies = <<En("rat", 25, 0)>>, !.orbs = <<Orb(16, 2, 300)>>],
     [Plain EXCEPT !.levels = Levels(1, 1, 0, 0, 0), !.t = 1600, !.hp = 7, !.kills = 9,
                   !.store = << <<"9">> >>,
                   !.enemies = <<En("dog", 31, Hp(24)), En("rat", 200, 0)>>]}

\* the population at or next to its cap
CrowdScenarios ==
    {[Plain EXCEPT !.levels = lv, !.xpGap = 1, !.orbs = <<Orb(10, 2, 300)>>,
                   !.enemies = [i \in 1..n |-> En("rat", -620 + i, 0)]] :
        lv \in {Levels(1, 1, 0, 0, 0)}, n \in {14, 15}}

Scenarios ==
    ContactScenarios \cup DogScenarios \cup OrbScenarios \cup TimerScenarios
    \cup HealScenarios \cup LateScenarios \cup CrowdScenarios \cup CarryScenarios
    \cup VolleyScenarios \cup StaleScenarios \cup LastStandScenarios

\* ---------------------------------------------------------------- specification
Assign(w) ==
    /\ player' = w.player
    /\ time' = w.time
    /\ kills' = w.kills
    /\ paused' = w.paused
    /\ gameOver' = w.gameOver
    /\ abilities' = w.abilities
    /\ claws' = w.claws
    /\ rotation' = w.rotation
    /\ enemies' = w.enemies
    /\ projectiles' = w.projectiles
    /\ xpOrbs' = w.xpOrbs
    /\ particles' = w.particles
    /\ timers' = w.timers
    /\ store' = w.store
    /\ displayHighScore' = w.displayHighScore
    /\ waveText' = w.waveText
    /\ spritesLoaded' = w.spritesLoaded
    /\ spritesPending' = w.spritesPending
    /\ readyState' = w.readyState
    /\ domListeners' = w.domListeners
    /\ modalShown' = w.modalShown
    /\ offer' = w.offer
    /\ gameOverShown' = w.gameOverShown
    /\ overlayShown' = w.overlayShown
    /\ rafPending' = w.rafPending
    /\ keys' = w.keys
    /\ keyEvents' = w.keyEvents
    /\ nextId' = w.nextId
    /\ spawns' = w.spawns
    /\ credited' = w.credited
    /\ ticks' = w.ticks
    /\ log' = w.log

InitWorlds == {BootWorld(<<>>)} \cup {MidRunWorld(sc) : sc \in Scenarios}

\* the variables hold the world w
Holds(w) ==
    /\ player = w.player
    /\ time = w.time
    /\ kills = w.kills
    /\ paused = w.paused
    /\ gameOver = w.gameOver
    /\ abilities = w.abilities
    /\ claws = w.claws
    /\ rotation = w.rotation
    /\ enemies = w.enemies
    /\ projectiles = w.projectiles
    /\ xpOrbs = w.xpOrbs
    /\ particles = w.particles
    /\ timers = w.timers
    /\ store = w.store
    /\ displayHighScore = w.displayHighScore
    /\ waveText = w.waveText
    /\ spritesLoaded = w.spritesLoaded
    /\ spritesPending = w.spritesPending
    /\ readyState = w.readyState
    /\ domListeners = w.domListeners
    /\ modalShown = w.modalShown
    /\ offer = w.offer
    /\ gameOverShown = w.gameOverShown
    /\ overlayShown = w.overlayShown
    /\ rafPending = w.rafPending
    /\ keys = w.keys
    /\ keyEvents = w.keyEvents
    /\ nextId = w.nextId
    /\ spawns = w.spawns
    /\ credited = w.credited
    /\ ticks = w.ticks
    /\ log = w.log

Init == \E w \in InitWorlds : Holds(w)

\* the model's bounds on one behaviour
WithinBounds(w) ==
    /\ w.ticks <= MaxTicks
    /\ w.spawns <= MaxSpawns
    /\ Len(w.timers) <= MaxTimers

\* The handler has run to completion: w is the next state
Commit(w) == WithinBounds(w) /\ Assign(w)

\* gameLoop runs from w, for every outcome of the random draws it makes
RunFrame(w) == \E in \in FrameInputs(w) : Commit(GameLoop(w, in))

\* startGame runs from w
RunStart(w) == \E in \in FrameInputs(StartGameReset(w)) : Commit(StartGame(w, in))

\* An animation frame: the browser runs a requested gameLoop callback
Frame ==
    /\ rafPending > 0
    /\ RunFrame([World EXCEPT !.rafPending = @ - 1, !.log = EmptyLog("frame")])

\* The start button of the overlay: startGameFromOverlay
StartFromOverlay ==
    /\ overlayShown
    /\ RunStart([World EXCEPT !.log = EmptyLog("start")])

\* The restart button of the game-over panel: startGame
Restart ==
    /\ gameOverShown
    /\ RunStart([World EXCEPT !.log = EmptyLog("start")])

\* A button of the level-up modal: selectUpgrade(key)
ChooseUpgrade ==
    /\ modalShown
    /\ \E i \in 1..Len(offer) :
          Assign(SelectUpgrade([World EXCEPT !.log = [EmptyLog("select") EXCEPT
                                                         !.key = offer[i].key]],
                               offer[i].key))

\* A deferred hit comes due; timers of equal delay fire in the order set
TimerFires ==
    \E i \in 1..Len(timers) :
        /\ \A j \in 1..(i - 1) : timers[j].delay > timers[i].delay
        /\ Assign(FireTimer([World EXCEPT !.log = EmptyLog("timer")], i))

\* The keydown and keyup listeners.  Only updatePlayer reads the keys map, so
\* a key event is taken when a frame that updates the world can follow it.
KeyEvent ==
    /\ keyEvents < MaxKeyEvents
    /\ rafPending > 0 /\ ~paused /\ ~gameOver /\ ticks < MaxTicks
    /\ \E k \in KeyNames, down \in BOOLEAN :
          /\ down = (k \notin keys)
          /\ Assign([World EXCEPT !.keys = IF down THEN @ \cup {k} ELSE @ \ {k},
                                  !.keyEvents = @ + 1,
                                  !.log = EmptyLog("key")])

Next == Frame \/ StartFromOverlay \/ Restart \/ ChooseUpgrade \/ TimerFires \/ KeyEvent

Spec == Init /\ [][Next]_vars

\* ---------------------------------------------------------------- page load
\* The load of one sprite succeeds: its onload handler runs
SpriteLoads ==
    \E sp \in spritesPending :
        Assign(OnSpriteLoad([World EXCEPT !.spritesPending = @ \ {sp},
                                          !.log = EmptyLog("spriteLoad")]))

\* The load of one sprite fails: its onerror handler runs
SpriteFails ==
    \E sp \in spritesPending :
        \E in \in FrameInputs(StartGameReset(World)) :
            Commit(OnSpriteError([World EXCEPT !.spritesPending = @ \ {sp},
                                               !.log = EmptyLog("spriteError")], in))

\* The document has been parsed: the DOMContentLoaded listeners run
DOMContentLoaded ==
    /\ readyState = "loading"
    /\ Assign(RunListeners([World EXCEPT !.readyState = "complete",
                                         !.log = EmptyLog("DOMContentLoaded")],
                           domListeners))

\* The page is opened with an empty store; the five loads complete in any
\* order and with any outcome, before or after DOMContentLoaded, and the
\* player may press the start button whenever the overlay shows it
LoadInit == \E shown \in BOOLEAN : Holds(LoadingWorld(<<>>, shown))

LoadNext == SpriteLoads \/ SpriteFails \/ DOMContentLoaded \/ StartFromOverlay

LoadSpec == LoadInit /\ [][LoadNext]_vars

\* ---------------------------------------------------------------- calm run
\* A run in which spawnEnemies never draws a spawn: no enemy, no orb, no
\* level-up, so the ability levels stay as they are while the cooldowns run.
\* It starts when the four cooldown abilities, all at the same level, are one
\* tick from firing.
MaxCalmTicks == 3601
CalmStart == 30000
CalmScenarios ==
    {[Plain EXCEPT !.levels = Levels(1, l, l, l, l), !.t = CalmStart,
                   !.ready = {"whiskerWhip", "hairballBurst", "pawSlam", "catNap"}] :
        l \in 1..5}

CalmInit == \E sc \in CalmScenarios : Holds(MidRunWorld(sc))

\* An animation frame of the calm run
CalmFrame ==
    /\ rafPending > 0
    /\ ticks < MaxCalmTicks
    /\ Assign(GameLoop([World EXCEPT !.rafPending = @ - 1, !.log = EmptyLog("frame")],
                       DefaultInput(World)))

CalmNext == CalmFrame

CalmSpec == CalmInit /\ [][CalmNext]_vars

\* ---------------------------------------------------------------- growth run
\* A run from level 1 in which every tick finds one orb at the player's feet,
\* the modal of the last level-up closed: the orb is worth 1, or what the
\* level still needs, or 3 more than that.
MaxGrowTicks == 40

GrowInit == Holds(MidRunWorld(Plain))

GrowValues == {1, player.xpNext - player.xp, player.xpNext - player.xp + 3}

\* The frame that collects the orb
GrowFrame ==
    /\ rafPending > 0
    /\ ticks < MaxGrowTicks
    /\ \E v \in GrowValues :
          Assign(GameLoop([World EXCEPT !.rafPending = @ - 1, !.log = EmptyLog("frame"),
                                        !.paused = FALSE, !.modalShown = FALSE,
                                        !.xpOrbs = <<[id |-> nextId, x |-> player.x,
                                                      value |-> v, life |-> 600,
                                                      born |-> time]>>,
                                        !.nextId = @ + 1],
                           DefaultInput(World)))

GrowNext == GrowFrame

GrowSpec == GrowInit /\ [][GrowNext]_vars

\* ---------------------------------------------------------------- slam run
\* Second wave, Paw Slam one tick from firing: dogs at 60 and 90 px, the edges
\* of the two radii, and a rat at 91 px, beyond both.
SlamScenarios ==
    {[Plain EXCEPT !.levels = Levels(1, 0, 0, l, 0), !.t = 1600, !.ready = {"pawSlam"},
                   !.enemies = <<En("dog", -60, 0), En("dog", 90, 0), En("rat", 91, 0)>>] :
        l \in {1, 2, 3, 5}}

SlamInit == \E sc \in SlamScenarios : Holds(MidRunWorld(sc))

SlamNext == Frame \/ TimerFires

\* a timer that is due fires: setTimeout callbacks are not starved
SlamSpec == SlamInit /\ [][SlamNext]_vars /\ WF_vars(TimerFires)

\* What localStorage may hold under the key: nothing, or any string
MaxStoreLen == 3
StoreChars == {"0", "7", "a", "-"}
StoreContents ==
    {<<>>} \cup {<<str>> : str \in UNION {[1..n -> StoreChars] : n \in 0..MaxStoreLen}}

\* The page is opened with any content of the store; initializeGame reads it
StoreInit == \E st \in StoreContents : Holds(LoadingWorld(st, FALSE))

StoreNext == DOMContentLoaded

StoreSpec == StoreInit /\ [][StoreNext]_vars

\* ================================================================ claims
WorldVars == <<player, time, kills, abilities, claws, rotation, enemies, projectiles,
               xpOrbs, particles>>

\* C1: every enemy that updateEnemies finds in contact with a non-invulnerable
\* player costs the player max(1, floor(damage * damageReduction)) hp exactly
\* once, sets invulnerability to 60, and removes exactly one enemy from the
\* collection, the contacting enemy itself, whatever its hp and whether or not
\* a claw hits it in the same tick.
C1_ContactRemovesOnlyItself ==
    \A i \in 1..Len(log.calls) :
        LET c == log.calls[i]
            reduced == IF abilities.catNap.level >= 2 THEN (c.damage * 95) \div 100
                       ELSE c.damage
        IN  c.contact =>
              /\ c.hpAfter = c.hpBefore - Max(1, reduced)
              /\ c.invulnerable = 60
              /\ c.removed = <<c.id>>

C3_PausedWorldFrozen ==
    [][(paused /\ paused') =>
          UNCHANGED <<time, player, abilities, enemies, projectiles, xpOrbs, particles>>]_vars

\* C4: player.hp never exceeds player.maxHp = 100; every Cat Nap heal and
\* every level-up heal leaves hp at or below 100.
C4_HpAtMostMax ==
    /\ player.maxHp = 100
    /\ player.hp <= player.maxHp
    /\ \A i \in 1..Len(log.heals) : log.heals[i].after <= 100
    /\ \A i \in 1..Len(log.levelUps) : log.levelUps[i].after.hp <= 100

\* Cat Nap and the level-up heal both acted in one frame on a player near
\* full health, and the cap held hp at 100
C4_Witness ==
    /\ log.heals # <<>>
    /\ log.heals[1].before > 80
    /\ log.levelUps # <<>>
    /\ player.hp = 100

\* C5: right after every call of spawnEnemies the number of enemies is at
\* most min(15 + 5*floor(time/1800) + 3*floor(level/3), 50) for the time and
\* player level of that call, and no enemy is added at or above the cap.
C5_PopulationCap ==
    \A i \in 1..Len(log.spawn) :
        LET r == log.spawn[i]
            levelThen == player.level - Len(log.levelUps)
            cap == Min(15 + 5 * (time \div 1800) + 3 * (levelThen \div 3), 50)
        IN  /\ r.after <= cap
            /\ r.before >= cap => r.after = r.before

\* spawnEnemies was called with the population at its cap and added nothing
C5_Witness ==
    /\ log.spawn # <<>>
    /\ log.spawn[1].before = 15
    /\ log.spawn[1].after = 15
    /\ Len(enemies) = 15

\* C6: selectUpgrade(k) raises the level of ability k by exactly 1, leaves
\* its cooldown, the level and cooldown of the other four abilities, the
\* player and all entity collections unchanged, rebuilds the claw set if and
\* only if k is Claw Orbit, and sets paused to false.
C6_SelectUpgradeEffect ==
    [][log'.kind = "select" =>
          LET k == log'.key
              clawCount == IF abilities'.clawOrbit.level >= 3 THEN 4 ELSE 2
          IN  /\ abilities'[k].level = abilities[k].level + 1
              /\ abilities'[k].cooldown = abilities[k].cooldown
              /\ \A o \in AbilityKeySet \ {k} : abilities'[o] = abilities[o]
              /\ UNCHANGED <<player, time, kills, enemies, projectiles, xpOrbs, particles>>
              /\ IF k = "clawOrbit"
                 THEN claws' = [i \in 1..clawCount |->
                                   [angleNum |-> i - 1, angleDen |-> clawCount,
                                    distance |-> 55, placed |-> FALSE]]
                 ELSE claws' = claws
              /\ ~paused']_vars

\* Claw Orbit was chosen, and its claws are the fresh, not yet placed set
C6_Witness ==
    /\ log.kind = "select"
    /\ log.key = "clawOrbit"
    /\ abilities.clawOrbit.level >= 2
    /\ \A i \in 1..Len(claws) : ~claws[i].placed
    /\ ~paused

C8_LevelsInRange ==
    /\ \A k \in AbilityKeySet : abilities[k].level \in 0..AbilityDefs[k].maxLevel
    /\ abilities.clawOrbit.level \in 1..5
    /\ modalShown => \A i \in 1..Len(offer) : abilities[offer[i].key].level < 5

\* a selection has just brought an ability to level 5
C8_Witness ==
    /\ log.kind = "select"
    /\ abilities[log.key].level = 5

\* C9: every orb that updateXP processes at distance < 20 is credited once,
\* player.xp rising by its value, and is removed in the same tick; the xp
\* gained over a frame is the sum of the values of the orbs collected in it,
\* less the thresholds paid for level-ups, and no orb is credited twice.
C9_OrbCreditedOnce ==
    /\ [](\A i \in 1..Len(xpOrbs) : xpOrbs[i].id \notin credited)
    /\ [](\A i \in 1..Len(log.orbs) :
             LET o == log.orbs[i]
                 mine == {j \in 1..Len(log.credits) : log.credits[j].id = o.id}
             IN  IF o.dist < Px(20)
                 THEN /\ Cardinality(mine) = 1
                      /\ \A j \in mine : /\ log.credits[j].value = o.value
                                         /\ log.credits[j].xpAfter =
                                               log.credits[j].xpBefore + o.value
                      /\ o.id \in credited
                 ELSE mine = {})
    /\ [][log'.kind = "frame" =>
             LET cr == log'.credits
                 ups == log'.levelUps
             IN  /\ \A i, j \in 1..Len(cr) : i # j => cr[i].id # cr[j].id
                 /\ \A i \in 1..Len(cr) : cr[i].id \notin credited
                 /\ credited' = credited \cup {cr[i].id : i \in 1..Len(cr)}
                 /\ player'.xp - player.xp =
                       SumSeq([i \in 1..Len(cr) |-> cr[i].value])
                       - SumSeq([i \in 1..Len(ups) |-> ups[i].before.xpNext])]_vars

\* two orbs have been collected, each credited once and both gone
C9_Witness ==
    /\ Cardinality(credited) = 2
    /\ Len(log.credits) = 1
    /\ xpOrbs = <<>>

\* C10: a credit that makes xp >= xpNext calls levelUp, which raises level by
\* exactly 1, subtracts the old xpNext from xp (remainder kept, never
\* negative), sets hp to min(100, hp + 20) and pauses; a player at level 1
\* with xpNext 10 and hp 100 whose credits reach exactly 10 ends at level 2,
\* xp 0, xpNext 11, hp 100, paused, with exactly 2 choices offered.
C10_LevelUpEffect ==
    LET Full(c) == c.xpAfter >= c.xpNext
        full == SelectSeq(log.credits, Full)
    IN  /\ Len(log.levelUps) = Len(full)
        /\ \A i \in 1..Len(log.levelUps) :
              LET b == log.levelUps[i].before
                  a == log.levelUps[i].after
              IN  /\ b.xp = full[i].xpAfter
                  /\ a.level = b.level + 1
                  /\ a.xp = b.xp - b.xpNext
                  /\ a.xp >= 0
                  /\ a.hp = Min(100, b.hp + 20)
                  /\ paused
                  /\ (b.level = 1 /\ b.xp = 10 /\ b.xpNext = 10 /\ b.hp = 100) =>
                        /\ a.level = 2 /\ a.xp = 0 /\ a.xpNext = 11 /\ a.hp = 100
                        /\ Len(log.offers[i].selected) = 2

\* the scenario of the claim: one orb worth 10 credited to a fresh player
C10_Witness ==
    /\ Len(log.credits) = 1
    /\ log.credits[1].xpBefore = 0
    /\ log.credits[1].value = 10
    /\ Len(log.levelUps) = 1
    /\ player.level = 2 /\ player.xp = 0 /\ player.xpNext = 11 /\ player.hp = 100
    /\ paused
    /\ Len(offer) = 2

\* C11 as stated: on each level-up the new xpNext is floor(old xpNext * 1.12)
\* when the new level is at most 5, and floor(old xpNext * 1.18) when the new
\* level is 6..10 or above 10.
C11_GrowthAsStated ==
    \A i \in 1..Len(log.levelUps) :
        LET b == log.levelUps[i].before
            a == log.levelUps[i].after
        IN  a.xpNext = IF a.level <= 5 THEN (b.xpNext * 112) \div 100
                       ELSE (b.xpNext * 118) \div 100

\* C11: on each level-up the new xpNext is floor(old xpNext * 1.12) when the
\* new level is at most 5, floor(old xpNext * 1.15) when the new level is
\* 6..10, and floor(old xpNext * 1.18) when the new level is above 10.
C11_TieredGrowth ==
    \A i \in 1..Len(log.levelUps) :
        LET b == log.levelUps[i].before
            a == log.levelUps[i].after
        IN  a.xpNext = IF a.level <= 5 THEN (b.xpNext * 112) \div 100
                       ELSE IF a.level <= 10 THEN (b.xpNext * 115) \div 100
                       ELSE (b.xpNext * 118) \div 100

\* a level-up to level 8, where the rates 1.15 and 1.18 give 20 and 21
C11_Witness ==
    /\ Len(log.levelUps) = 1
    /\ log.levelUps[1].after.level = 8
    /\ log.levelUps[1].before.xpNext = 18
    /\ player.xpNext = 20

\* C12: a state with xp >= xpNext does not persist over an unpaused tick: a
\* frame that runs the updates from such a state triggers a level-up, even
\* when it collects no orb.
C12_CarriedXpLevelsUp ==
    [][(log'.kind = "frame" /\ ~paused /\ ~gameOver /\ player.xp >= player.xpNext)
          => player'.level > player.level]_vars

\* C13: an enemy whose hp a claw hit of updateEnemies brings to 0 or below is
\* gone from the collection at the end of that tick and raises kills by
\* exactly 1, whether or not dropXP makes an orb; each call of dropXP pushes
\* at most one orb, which carries the enemy's xpValue and life 600.
C13_ClawKill ==
    LET Dead(c) == c.dead
        dead == SelectSeq(log.calls, Dead)
    IN  /\ \A i \in 1..Len(log.calls) :
              LET c == log.calls[i]
              IN  /\ (c.clawHit /\ c.enemyHp <= 0) => c.dead
                  /\ c.dead => /\ c.id \notin Ids(enemies)
                               /\ c.killsAfter = c.killsBefore + 1
                  /\ ~c.dead => c.killsAfter = c.killsBefore
                  /\ i < Len(log.calls) => log.calls[i + 1].killsBefore = c.killsAfter
        /\ log.calls # <<>> => kills = log.calls[Len(log.calls)].killsAfter
        /\ log.drops = Len(dead)
        /\ \A i \in 1..Len(log.made) :
              /\ log.made[i].call \in 1..Len(dead)
              /\ log.made[i].value = dead[log.made[i].call].xpValue
              /\ log.made[i].life = 600
              /\ \A j \in 1..Len(log.made) : i # j => log.made[i].call # log.made[j].call

\* a rat with 12 hp died of one claw hit at Claw Orbit level 1: one kill, no orb
C13_Witness ==
    /\ Len(log.calls) >= 1
    /\ log.calls[1].clawHit
    /\ log.calls[1].enemyHpBefore = Hp(12)
    /\ log.calls[1].enemyHp = 0
    /\ ~log.calls[1].contact
    /\ abilities.clawOrbit.level = 1
    /\ kills = log.calls[1].killsBefore + 1
    /\ log.made = <<>>

\* C14: after gameOver() the stored high score is max(previous stored high
\* score, kill count at death); the store is overwritten only when the kill
\* count strictly exceeds the previous value, and only gameOver writes it.
C14_HighScoreIsMax ==
    /\ [](\A i \in 1..Len(log.over) :
             LET o == log.over[i]
                 prev == GetHighScore(o.before)
                 now == GetHighScore(o.after)
             IN  /\ ~prev.nan /\ ~now.nan
                 /\ now.val = Max(prev.val, o.kills)
                 /\ (o.after # o.before) => o.kills > prev.val
                 /\ (o.kills > prev.val) => o.after = <<NumberToString(o.kills)>>
                 /\ i = Len(log.over) => store = o.after)
    /\ [][store' # store => log'.over # <<>>]_vars

\* a run ended with 4 kills against a stored 3: the store now holds 4
C14_Witness ==
    /\ Len(log.over) = 1
    /\ log.over[1].before = << <<"3">> >>
    /\ log.over[1].kills = 4
    /\ store = << <<"4">> >>

\* ---------------------------------------------------------------- C15
\* str is an integer in decimal notation
IsIntegerString(str) ==
    LET u == IF str # <<>> /\ Head(str) = "-" THEN Tail(str) ELSE str
    IN  u # <<>> /\ \A i \in 1..Len(u) : IsDigit(u[i])

\* C15: what getHighScore returned to updateHighScoreDisplay is an integer for
\* every content of the store: the stored number when the store holds a valid
\* integer, and 0 when the key is absent or holds anything else.
C15_GetHighScoreInteger ==
    \A i \in 1..Len(displayHighScore) :
        /\ ~displayHighScore[i].nan
        /\ displayHighScore[i].val =
              IF store # <<>> /\ IsIntegerString(store[1]) THEN ParseInt(store[1]).val ELSE 0

\* ---------------------------------------------------------------- C16
\* C16: whatever the state startGame is called in, the world it hands to the
\* tick loop is the initial one: player hp 100, level 1, xp 0, xpNext 10, at
\* x = 600, not invulnerable; time 0, kills 0, not paused, not over; Claw Orbit
\* at level 1 and the other abilities at 0, every cooldown 0, two claws, orbit
\* rotation 0; no enemies, projectiles, orbs or particles.
C16_StartGameResetsAll ==
    \A i \in 1..Len(log.started) :
        LET s == log.started[i]
        IN  /\ s.player.hp = 100 /\ s.player.level = 1 /\ s.player.xp = 0
            /\ s.player.xpNext = 10 /\ s.player.x = Px(600) /\ s.player.invulnerable = 0
            /\ s.time = 0 /\ s.kills = 0 /\ ~s.paused /\ ~s.gameOver
            /\ \A k \in AbilityKeySet :
                  /\ s.abilities[k].level = (IF k = "clawOrbit" THEN 1 ELSE 0)
                  /\ s.abilities[k].cooldown = 0
            /\ Len(s.claws) = 2
            /\ s.rotation = 0
            /\ s.enemies = <<>> /\ s.projectiles = <<>>
            /\ s.xpOrbs = <<>> /\ s.particles = <<>>

\* ---------------------------------------------------------------- C17
\* C17: a deferred hit (second slam, claw afterimage) that fires when its
\* target is no longer in the enemies collection changes nothing in the world:
\* kills, orbs, the hp of every enemy present, the player, time, abilities,
\* projectiles and particles keep their values, and no game over is raised.
C17_LateHitIgnored ==
    [][(log'.kind = "timer" /\ log'.fired # <<>>
        /\ log'.fired[1].target \notin Ids(enemies))
          => /\ UNCHANGED WorldVars
             /\ UNCHANGED <<paused, gameOver, store, modalShown, gameOverShown, nextId>>]_vars

\* a deferred hit has fired after its target died, while another enemy is there
C17_Witness ==
    /\ log.kind = "timer" /\ log.fired # <<>>
    /\ log.fired[1].target \notin Ids(enemies)
    /\ enemies # <<>>
    /\ kills > 0

\* ---------------------------------------------------------------- C18
\* C18: the wave is floor(time / 1500) + 1: 1 on ticks 1..1499 and 2 at tick
\* 1500, whether or not anything was spawned; the wave spawnEnemies computes in
\* a frame and the wave updateUI writes to #wave are that same value.
C18_WaveNumber ==
    /\ waveText # <<>> =>
          /\ waveText[1] = (time \div 1500) + 1
          /\ (time \in 1..1499 => waveText[1] = 1)
          /\ (time = 1500 => waveText[1] = 2)
    /\ \A i \in 1..Len(log.spawn) :
          log.spawn[i].wave \in {<<>>, waveText}

\* tick 1500 of a run in which nothing was spawned: spawner and UI have wave 2
C18_Witness ==
    /\ time = 1500 /\ spawns = 0 /\ log.kind = "frame"
    /\ waveText = <<2>>
    /\ log.spawn # <<>> /\ log.spawn[1].wave = <<2>>

C20_FirstHitConsumes ==
    \A i \in 1..Len(log.hits) :
        LET h == log.hits[i]
        IN  IF ~h.shot.pierce
            THEN /\ \A j \in 1..Len(log.hits) : log.hits[j].proj = h.proj => j = i
                 /\ h.proj \notin Ids(projectiles)
            ELSE \/ h.proj \in Ids(projectiles)
                 \/ h.shot.x < Px(-50) \/ h.shot.x > Px(CanvasWidth + 50)
                 \/ (h.shot.range # <<>> /\ h.shot.life > h.shot.range[1])

\* ---------------------------------------------------------------- C21
\* C21: a projectile leaves the projectiles array in a frame only if that same
\* projectile, after its move, is more than 50 px off the canvas, has a life
\* greater than its range, or has no pierce flag and has hit an enemy; the hit
\* or expiry of one projectile never removes another.
C21_OnlyOwnRemoval ==
    [][log'.kind = "frame" =>
          \A i \in 1..Len(projectiles) :
              projectiles[i].id \notin Ids(projectiles') =>
                  \/ ProjectileMoved(projectiles[i]).x < Px(-50)
                  \/ ProjectileMoved(projectiles[i]).x > Px(CanvasWidth + 50)
                  \/ /\ projectiles[i].range # <<>>
                     /\ ProjectileMoved(projectiles[i]).life > projectiles[i].range[1]
                  \/ /\ ~projectiles[i].pierce
                     /\ \E j \in 1..Len(log'.hits) : log'.hits[j].proj = projectiles[i].id]_vars

\* ---------------------------------------------------------------- C22
\* C22: an orb leaves xpOrbs in a frame only if that same orb was collected,
\* its value credited to player.xp, or if its own life has run down to 0; no
\* orb with life left leaves the array uncredited.
C22_OrbRemovedForCause ==
    [][log'.kind = "frame" =>
          \A i \in 1..Len(xpOrbs) :
              xpOrbs[i].id \notin Ids(xpOrbs') =>
                  \/ xpOrbs[i].id \in credited' \ credited
                  \/ xpOrbs[i].life - 1 <= 0]_vars

\* ---------------------------------------------------------------- C23
\* C23: an orb that is not collected is gone 600 unpaused ticks after the tick
\* that created it, wherever it lies and whatever happens to the other orbs:
\* every orb in xpOrbs was created fewer than 600 ticks ago.
C23_OrbGoneAfter600 ==
    \A i \in 1..Len(xpOrbs) : time - xpOrbs[i].born < 600

\* ---------------------------------------------------------------- C24
\* C24: an enemy whose hp falls to 0 or below during a tick, whatever hit it
\* (Paw Slam, claw, projectile), is removed and counted before the tick ends:
\* at the end of a tick no enemy in the array has hp <= 0.
C24_NoDeadEnemyAfterTick ==
    [][(log'.kind = "frame" /\ time' = time + 1)
          => \A i \in 1..Len(enemies') : enemies'[i].hp > 0]_vars

\* ---------------------------------------------------------------- C25
\* C25: whenever a level-up has paused the game, the modal offers at least one
\* upgrade, whatever the ability levels are, so that selectUpgrade can be
\* chosen and the game can resume; the game is never paused without a choice.
C25_PausedHasChoice ==
    paused => (modalShown /\ Len(offer) >= 1)

\* ---------------------------------------------------------------- C26
\* C26: player.level rises by at most 1 in one tick, however many orbs the
\* tick collects: levelUp runs at most once per call of updateXP, so every
\* level gained has its own offer answered before the next level is gained.
C26_OneLevelPerTick ==
    [][log'.kind = "frame" =>
          /\ player'.level <= player.level + 1
          /\ Len(log'.levelUps) <= 1]_vars

\* ---------------------------------------------------------------- C27
\* the callbacks of updateEnemies that hit the player in the frame logged in l
ContactCalls(l) == {i \in 1..Len(l.calls) : l.calls[i].contact}

\* C27: within a run, player hp falls only by a contact in a frame, at most
\* once per tick and never while invulnerable > 0.  A hit leaves 59 ticks of
\* invulnerability at the end of its tick and a Cat Nap of level >= 4 leaves
\* 179; invulnerability runs down by at most 1 per unpaused tick and is not
\* changed between ticks, so two hits are at least 60 ticks apart and a hit
\* comes at least 180 ticks after such a Cat Nap.  An enemy in contact with an
\* invulnerable player deals no damage and is not removed by the contact.
C27_GraceAfterHit ==
    /\ [][log'.kind = "frame" =>
             /\ Cardinality(ContactCalls(log')) <= 1
             /\ ContactCalls(log') # {} =>
                   /\ player.invulnerable <= 0
                   /\ player'.invulnerable = 59
                   /\ ~(log'.heals # <<>> /\ abilities.catNap.level >= 4)
             /\ ContactCalls(log') = {} => player'.hp >= player.hp
             /\ (log'.heals # <<>> /\ abilities.catNap.level >= 4) =>
                   player'.invulnerable = 179
             /\ player'.invulnerable >= player.invulnerable - 1
             /\ \A i \in 1..Len(log'.calls) :
                   (log'.calls[i].inRange /\ log'.calls[i].invulnerable > 0
                    /\ i \notin ContactCalls(log')) =>
                       /\ log'.calls[i].hpAfter = log'.calls[i].hpBefore
                       /\ (~log'.calls[i].dead => log'.calls[i].removed = <<>>)]_vars
    /\ [][log'.kind \notin {"frame", "start"} =>
             /\ player'.hp = player.hp
             /\ player'.invulnerable = player.invulnerable]_vars

\* a rat has hit the player, and a rat reached later in the same tick, also in
\* contact, found the player invulnerable: it did no damage and is still there
C27_Witness ==
    /\ log.kind = "frame" /\ player.invulnerable = 59
    /\ \E i, j \in 1..Len(log.calls) :
          /\ i < j
          /\ log.calls[i].contact
          /\ log.calls[j].inRange /\ ~log.calls[j].contact
          /\ log.calls[j].invulnerable = 60
          /\ log.calls[j].hpAfter = log.calls[i].hpAfter
          /\ log.calls[j].id \in Ids(enemies)

\* ---------------------------------------------------------------- C28
\* the cooldown the claim gives for ability k at level lvl
StatedCooldown(k, lvl) ==
    IF k = "whiskerWhip" THEN (IF lvl >= 2 THEN 84 ELSE 120)
    ELSE IF k = "hairballBurst" THEN 180
    ELSE IF k = "pawSlam" THEN 150
    ELSE (IF lvl >= 5 THEN 1200 ELSE 1800)

\* C28: with the levels constant and > 0, Whisker Whip fires every 120 ticks
\* (84 at level >= 2), Hairball Burst every 180, Paw Slam every 150 and Cat
\* Nap every 1800 (1200 at level 5), counted from the first trigger, and in no
\* tick between; each cooldown stays within 0..maxCooldown; an ability fires
\* only in a tick in which its cooldown has run down to 0.
C28_CooldownPeriods ==
    /\ [](\A k \in {"whiskerWhip", "hairballBurst", "pawSlam", "catNap"} :
             /\ abilities[k].cooldown \in 0..AbilityDefs[k].maxCooldown
             /\ log.kind = "frame" =>
                   (k \in log.triggered
                      <=> (time - CalmStart - 1) % StatedCooldown(k, abilities[k].level) = 0))
    /\ [][\A k \in log'.triggered : abilities[k].level > 0 /\ abilities[k].cooldown <= 1]_vars

\* Cat Nap of level 5 fires for the third time, 2400 ticks after the first
C28_Witness ==
    /\ abilities.catNap.level = 5
    /\ log.kind = "frame" /\ "catNap" \in log.triggered
    /\ time = CalmStart + 2401
    /\ abilities.catNap.cooldown = 1200
    /\ abilities.whiskerWhip.cooldown = 84 - (2400 % 84)

\* ---------------------------------------------------------------- C29
CooldownKeys == {"whiskerWhip", "hairballBurst", "pawSlam", "catNap"}

\* the handler of this step has left no effect of ability k
NoEffectOf(k) ==
    /\ k \notin log'.triggered
    /\ k = "whiskerWhip" =>
          \A i \in 1..Len(projectiles') :
              projectiles'[i].id \notin Ids(projectiles) => projectiles'[i].type # "whip"
    /\ k = "hairballBurst" =>
          \A i \in 1..Len(projectiles') :
              projectiles'[i].id \notin Ids(projectiles) => projectiles'[i].type # "hairball"
    /\ k = "pawSlam" =>
          /\ \A i \in 1..Len(particles') :
                 particles'[i].type = "slam" => particles'[i].life < 29
          /\ Cardinality({i \in 1..Len(timers') : timers'[i].delay = 200})
                <= Cardinality({i \in 1..Len(timers) : timers[i].delay = 200})
    /\ k = "catNap" => log'.heals = <<>>

\* C29: an ability at level 0 never triggers (no projectile, no particle, no
\* deferred hit, no heal) and its cooldown stays 0; in a tick an ability of
\* level > 0 triggers exactly when its cooldown has run out, so it triggers
\* on the first unpaused tick after selectUpgrade took it from 0 to 1;
\* selectUpgrade leaves every cooldown as it is, and a running cooldown goes
\* on counting down by one per tick.
C29_LevelZeroAndRaise ==
    /\ [](\A k \in CooldownKeys : abilities[k].level = 0 => abilities[k].cooldown = 0)
    /\ [][\A k \in CooldownKeys :
             /\ abilities'[k].level = 0 => NoEffectOf(k)
             /\ (log'.kind = "frame" /\ time' = time + 1)
                   => /\ abilities'[k].level = abilities[k].level
                      /\ k \in log'.triggered
                            <=> (abilities[k].level > 0 /\ abilities[k].cooldown <= 1)
                      /\ abilities[k].cooldown > 1
                            => abilities'[k].cooldown = abilities[k].cooldown - 1
             /\ log'.kind = "select"
                   => /\ abilities'[k].cooldown = abilities[k].cooldown
                      /\ abilities'[k].level =
                            abilities[k].level + (IF log'.key = k THEN 1 ELSE 0)
                      /\ ~paused'
                      /\ log'.triggered = {}
             /\ (log'.kind \notin {"frame", "start", "select"}
                  \/ (log'.kind = "frame" /\ time' = time))
                   => /\ abilities'[k] = abilities[k]
                      /\ log'.triggered = {}]_vars

\* Whisker Whip, taken from level 0 to 1 in the level-up modal, fires in
\* the next tick; the abilities still at level 0 keep cooldown 0
C29_Witness ==
    /\ log.kind = "frame" /\ time = 30002
    /\ abilities.clawOrbit.level = 4
    /\ abilities.hairballBurst.level = 0 /\ abilities.hairballBurst.cooldown = 0
    /\ abilities.whiskerWhip.level = 1
    /\ log.triggered = {"whiskerWhip"}
    /\ abilities.whiskerWhip.cooldown = AbilityDefs.whiskerWhip.maxCooldown
    /\ \E i \in 1..Len(projectiles) : projectiles[i].type = "whip"

\* ---------------------------------------------------------------- C30
\* radius and damage of the slam as the claim gives them
StatedSlamRadius(lvl) == IF lvl >= 3 THEN Px(90) ELSE Px(60)
StatedSlamDamage(lvl) == IF lvl >= 2 THEN Hp(36) ELSE Hp(30)

\* the enemies the slam of this step has reached
SlamAffected ==
    {log'.slam[k].id : k \in {j \in 1..Len(log'.slam) :
                                log'.slam[j].dist <= StatedSlamRadius(abilities.pawSlam.level)}}

\* the deferred hits set by the handler of this step
TimersSet == {i \in (Len(timers) + 1)..Len(timers') : timers'[i].delay = 200}

SlamIds == 101..103

\* C30: when Paw Slam triggers, pawSlam visits every enemy once; an enemy at
\* distance <= radius (60 px, 90 px at level >= 3) from the player loses the
\* damage (30, 36 at level >= 2), an enemy further away keeps its hp; one
\* particle of life 30 is added (29 at the end of the tick); at level 5, and
\* only then, one deferred hit of half the damage is set for each enemy
\* reached.  A deferred hit fires once: it leaves the list of timers and takes
\* its damage from its target, and from nothing else.  Every deferred hit
\* that is pending fires.
C30_SlamHitsOnce ==
    /\ [][("pawSlam" \in log'.triggered /\ log'.kind = "frame") =>
            /\ Len(log'.slam) = Len(enemies)
            /\ \A k \in 1..Len(enemies) :
                  /\ log'.slam[k].id = enemies[k].id
                  /\ log'.slam[k].before = enemies[k].hp
                  /\ log'.slam[k].dist = Abs(enemies[k].x - player'.x)
                  /\ log'.slam[k].after =
                        IF log'.slam[k].dist <= StatedSlamRadius(abilities.pawSlam.level)
                        THEN enemies[k].hp - StatedSlamDamage(abilities.pawSlam.level)
                        ELSE enemies[k].hp
            /\ Cardinality({i \in 1..Len(particles') :
                                particles'[i].type = "slam" /\ particles'[i].life = 29
                                /\ particles'[i].radius
                                      = StatedSlamRadius(abilities.pawSlam.level)}) = 1
            /\ Len(particles') = Len(particles) + 1
            /\ \A i \in TimersSet :
                  /\ timers'[i].damage = StatedSlamDamage(abilities.pawSlam.level) \div 2
                  /\ timers'[i].target \in SlamAffected
            /\ \A id \in SlamAffected :
                  Cardinality({i \in TimersSet : timers'[i].target = id})
                    = IF abilities.pawSlam.level >= 5 THEN 1 ELSE 0]_vars
    /\ [][log'.kind = "timer" =>
            \E i \in 1..Len(timers) :
                /\ timers' = Splice(timers, i)
                /\ log'.fired = <<timers[i]>>
                /\ Len(enemies') = Len(enemies)
                /\ \A k \in 1..Len(enemies) :
                      enemies'[k] = IF enemies[k].id = timers[i].target
                                    THEN [enemies[k] EXCEPT !.hp = @ - timers[i].damage]
                                    ELSE enemies[k]]_vars
    /\ \A id \in SlamIds :
          (\E i \in 1..Len(timers) : timers[i].target = id /\ timers[i].delay = 200)
            ~> (log.kind = "timer" /\ log.fired # <<>> /\ log.fired[1].target = id
                /\ log.fired[1].delay = 200)

\* Paw Slam of level 5 has fired: the dogs at 60 and 90 px lost 36 and have a
\* hit of 18 pending, the rat at 91 px was passed over
C30_Witness ==
    /\ log.kind = "frame" /\ "pawSlam" \in log.triggered
    /\ abilities.pawSlam.level = 5
    /\ Len(log.slam) = 3
    /\ log.slam[1].dist = Px(60) /\ log.slam[1].after = log.slam[1].before - Hp(36)
    /\ log.slam[2].dist = Px(90) /\ log.slam[2].after = log.slam[2].before - Hp(36)
    /\ log.slam[3].dist = Px(91) /\ log.slam[3].after = log.slam[3].before
    /\ Len(timers) = 2
    /\ timers[1] = [target |-> 101, damage |-> Hp(18), delay |-> 200]
    /\ timers[2] = [target |-> 102, damage |-> Hp(18), delay |-> 200]
    /\ \E i \in 1..Len(particles) : particles[i].type = "slam" /\ particles[i].life = 29

\* ---------------------------------------------------------------- C31
\* C31: every crow in the collection was spawned at wave >= 4 while the player
\* level was >= 5, every dog at wave >= 2 while the level was >= 2; before
\* tick 1500, and while the player is level 1, every enemy is a rat.  The
\* spawn of a frame takes the wave of that tick and the player level the
\* frame began with.
C31_TypeUnlocks ==
    /\ [](\A i \in 1..Len(enemies) :
             /\ enemies[i].type = "crow" => (enemies[i].wave >= 4 /\ enemies[i].level >= 5)
             /\ enemies[i].type = "dog" => (enemies[i].wave >= 2 /\ enemies[i].level >= 2)
             /\ (time < 1500 \/ player.level = 1) => enemies[i].type = "rat")
    /\ [][\A i \in 1..Len(enemies') :
             (log'.kind = "frame" /\ enemies'[i].id \notin Ids(enemies))
                => /\ enemies'[i].wave = (time' \div 1500) + 1
                   /\ enemies'[i].level = player.level]_vars

\* a crow has been spawned
C31_Witness ==
    /\ spawns > 0 /\ log.kind = "frame"
    /\ \E i \in 1..Len(enemies) :
          /\ enemies[i].type = "crow"
          /\ enemies[i].wave = (time \div 1500) + 1
          /\ enemies[i].wave >= 4 /\ enemies[i].level >= 5

\* ---------------------------------------------------------------- C32
\* the projectiles of s with the bounce and explode flags set to b
WithFlags(s, b) == [i \in 1..Len(s) |-> [s[i] EXCEPT !.bounce = b, !.explode = b]]

\* what updateProjectiles leaves when every projectile carries the flags b:
\* the enemies, and the projectiles apart from their flags
AfterUpdateProjectiles(b) ==
    [enemies |-> UpdateProjectiles([World EXCEPT !.projectiles = WithFlags(@, b)]).enemies,
     projectiles |->
        WithFlags(UpdateProjectiles([World EXCEPT !.projectiles = WithFlags(@, b)]).projectiles,
                  FALSE)]

\* the projectiles the abilities of this step may have fired
FiredCount ==
    (IF "whiskerWhip" \in log'.triggered
     THEN (IF abilities.whiskerWhip.level >= 5 THEN 2 ELSE 1) ELSE 0)
    + (IF "hairballBurst" \in log'.triggered
       THEN (IF abilities.hairballBurst.level >= 3 THEN 2 ELSE 1) ELSE 0)

StatedClawCount(lvl) == IF lvl >= 3 THEN 4 ELSE 2

\* C33: once startGame has run there are 2 claws while Claw Orbit is below
\* level 3 and 4 from level 3 on, claw i (from 0) at the angle 2*pi*i/count
\* and at distance 55, whatever upgrades and restarts came before; startGame
\* and the upgrade of Claw Orbit build the set anew, every other handler
\* leaves the angles and distances alone.
C33_ClawCount ==
    /\ [](~overlayShown =>
             /\ Len(claws) = StatedClawCount(abilities.clawOrbit.level)
             /\ \A i \in 1..Len(claws) :
                   /\ claws[i].angleNum = i - 1
                   /\ claws[i].angleDen = StatedClawCount(abilities.clawOrbit.level)
                   /\ claws[i].distance = 55)
    /\ [][(log'.kind = "select" /\ log'.key = "clawOrbit")
            => \A i \in 1..Len(claws') : ~claws'[i].placed]_vars
    /\ [][(log'.kind \notin {"start", "select"} \/ (log'.kind = "select" /\ log'.key # "clawOrbit"))
            => /\ Len(claws') = Len(claws)
               /\ \A i \in 1..Len(claws) :
                     /\ claws'[i].angleNum = claws[i].angleNum
                     /\ claws'[i].angleDen = claws[i].angleDen
                     /\ claws'[i].distance = claws[i].distance]_vars

\* the upgrade of Claw Orbit from level 2 to 3 has built four claws, a
\* quarter turn apart
C33_Witness ==
    /\ log.kind = "select" /\ log.key = "clawOrbit"
    /\ abilities.clawOrbit.level = 3
    /\ Len(claws) = 4
    /\ \A i \in 1..4 : claws[i].angleNum = i - 1 /\ claws[i].angleDen = 4
                         /\ claws[i].distance = 55 /\ ~claws[i].placed

\* ---------------------------------------------------------------- C34
\* C34: at most one gameLoop callback is pending at any time, whatever the
\* order of overlay clicks, restarts after game over and animation frames.
C34_OneLoop == rafPending <= 1

\* ---------------------------------------------------------------- C35
\* C35: within a run gameOver is true exactly when player.hp <= 0: hp <= 0
\* implies the flag, and while the flag is set hp is not positive (no heal and
\* no level-up applies after death).
C35_DeadIffGameOver == gameOver <=> player.hp <= 0

\* ---------------------------------------------------------------- C36
\* C36: after gameOver() has run, kills does not increase for the rest of the
\* run: the kills a handler leaves are the kills gameOver() read in it, no
\* later handler before startGame raises them, and so the stored high score
\* is at least the kill count of the run in every state after game over.
C36_KillsFrozenAfterGameOver ==
    /\ [](gameOver =>
             (~GetHighScore(store).nan /\ GetHighScore(store).val >= kills))
    /\ [][(log'.kind = "frame" /\ log'.over # <<>>) => kills' = log'.over[1].kills]_vars
    /\ [][(gameOver /\ log'.kind # "start") => kills' = kills]_vars

\* ---------------------------------------------------------------- C37
\* C37: an enemy whose hp is <= 0 never reduces player hp: every contact
\* that deals damage is the contact of an enemy with hp > 0.
C37_DeadEnemyHarmless ==
    \A i \in 1..Len(log.calls) :
        log.calls[i].contact => log.calls[i].enemyHpBefore > 0

\* ---------------------------------------------------------------- C38
\* C38: the upgrades applied never outnumber the level-ups: the sum of the
\* five ability levels is at most player.level, and both are 1 when startGame
\* has reset them; levelUp raises the level only, selectUpgrade the sum only,
\* by one, and only with the modal of a level-up open.
C38_UpgradesWithinLevel ==
    /\ [](LevelSum([k \in AbilityKeySet |-> abilities[k].level]) <= player.level)
    /\ [](modalShown =>
             LevelSum([k \in AbilityKeySet |-> abilities[k].level]) < player.level)
    /\ [][log'.kind = "start" =>
            /\ log'.started[1].player.level = 1
            /\ LevelSum([k \in AbilityKeySet |-> log'.started[1].abilities[k].level]) = 1]_vars
    /\ [][log'.kind = "select" =>
            /\ modalShown /\ ~modalShown'
            /\ LevelSum([k \in AbilityKeySet |-> abilities'[k].level])
                  = LevelSum([k \in AbilityKeySet |-> abilities[k].level]) + 1
            /\ player'.level = player.level]_vars
    /\ [][log'.kind \notin {"select", "start"} =>
            /\ \A k \in AbilityKeySet : abilities'[k].level = abilities[k].level
            /\ player'.level >= player.level]_vars

\* an upgrade has been chosen after a level-up: sum and level are level again
C38_Witness ==
    /\ log.kind = "select"
    /\ player.level = 2
    /\ LevelSum([k \in AbilityKeySet |-> abilities[k].level]) = 2
    /\ abilities.clawOrbit.level = 1

\* ---------------------------------------------------------------- C39
\* C39: every level-up leaves xpNext strictly above what it was, from the 10
\* of level 1 on and in each of the three tiers of growth; within a run
\* player.level never decreases and player.xp is never negative.
C39_XpNextGrows ==
    /\ [](player.xp >= 0 /\ player.xpNext >= 10)
    /\ [](\A i \in 1..Len(log.levelUps) :
             /\ log.levelUps[i].after.xpNext > log.levelUps[i].before.xpNext
             /\ log.levelUps[i].after.level = log.levelUps[i].before.level + 1
             /\ log.levelUps[i].before.xp >= log.levelUps[i].before.xpNext
             /\ log.levelUps[i].after.xp >= 0)
    /\ [][/\ player'.level >= player.level
          /\ player'.xpNext >= player.xpNext
          /\ player'.level > player.level <=> player'.xpNext > player.xpNext
          /\ player'.level > player.level <=> log'.levelUps # <<>>]_vars

\* the level-up to level 30, in the third tier of growth
C39_Witness ==
    /\ log.kind = "frame" /\ Len(log.levelUps) = 1
    /\ player.level = 30
    /\ log.levelUps[1].before.level = 29
    /\ player.xpNext = (log.levelUps[1].before.xpNext * 118) \div 100
    /\ player.xpNext > log.levelUps[1].before.xpNext
    /\ player.xp = 3

====
